---- MODULE Spec2Model ----
(***************************************************************************)
(* Turn-based agent simulation of the agentic-world repository.            *)
(*                                                                         *)
(* The repository holds several independent programs that share one data   *)
(* model (agents with money / needs / location / memories, a location      *)
(* registry, pairwise relationships).  The variable sys says which program *)
(* is running; every action is guarded by it, and each specification       *)
(* starts in the constructor state of the program(s) it is about:          *)
(*   "basic"      AIAgentSimulation         execute-simulation-turn.py     *)
(*   "mcp"        MCPEnabledSimulation      execute-simulation-turn-with-  *)
(*                                          mcp.py                         *)
(*   "cis"        CharacterInteractionSystem character-interactions.py     *)
(*   "spatial"    SpatialWorld              spatial-world-system.py        *)
(*   "persistent" StatefulNarrative         persistent-world-state.py      *)
(*   "r5"         SimulationTurn            run-5-turns.py                 *)
(*   "simple"     SimulationRunner          simple_simulation.py           *)
(*                                                                         *)
(* Money is counted in cents (Decimal('53.09') is 5309).                   *)
(***************************************************************************)
EXTENDS Integers, Sequences, FiniteSets, TLC

VARIABLES
  sys,            \* which program is running
  agents,         \* agent id -> record (self.agents / self.characters)
  occupants,      \* location id -> sequence of agent ids (occupancy lists)
  relationships,  \* relationship key <<char1, char2>> -> record
  events,         \* world events (the rent strike of the persistent world)
  paused,         \* whether the pause file of PauseControl exists
  turn_number,    \* self.turn_number
  world_time,     \* self.world_time, minutes since midnight
  use_bedrock,    \* self.use_bedrock
  pc,             \* position of execute_turn / of the last call
  cur,            \* index in AgentOrder of the agent being processed
  perception,     \* perception record of the agent being processed
  decision,       \* decision record of the agent being processed
  outcome,        \* how the last call ended: "ok" or the exception raised
  tickStart,      \* history: the agent table as it was when the tick began
  lastCall        \* history: arguments and result of the last call

vars == <<sys, agents, occupants, relationships, events, paused, turn_number, world_time,
          use_bedrock, pc, cur, perception, decision, outcome, tickStart,
          lastCall>>

----------------------------------------------------------------------------
(* Bounds of the model *)

\* ticks explored in the turn-level specifications
MaxTurns == 9

\* direct calls of the resolver and of the needs update of run-5-turns.py
MaxR5Calls == 4

\* calls of simulate_location_interactions of character-interactions.py
MaxCisCalls == 2

\* ticks of the simulation with viewer tools
MaxMcpTurns == 2

\* meetings of two agents when the meeting is called on its own
MaxMcpMeetings == 4

\* direct calls of move_character of spatial-world-system.py
MaxSpatialMoves == 2

\* calls of process_action and get_character of persistent-world-state.py
MaxPersistentCalls == 3

\* turns of run_turn of the simple runner
MaxSimpleTurns == 3

----------------------------------------------------------------------------
(* Program constants *)

\* memories[-30:]
MemoryCap == 30

Max(a, b) == IF a >= b THEN a ELSE b
Min(a, b) == IF a <= b THEN a ELSE b

NoRecord == [none |-> TRUE]

----------------------------------------------------------------------------
(* Action names and keywords as character sequences, so that Python's      *)
(* substring test ('eat' in action) is computed, not assumed.              *)

Text(w) ==
  CASE w = "food" -> <<"f","o","o","d">>
    [] w = "lunch" -> <<"l","u","n","c","h">>
    [] w = "eat" -> <<"e","a","t">>
    [] w = "work" -> <<"w","o","r","k">>
    [] w = "shift" -> <<"s","h","i","f","t">>
    [] w = "gig" -> <<"g","i","g">>
    [] w = "submit" -> <<"s","u","b","m","i","t">>
    [] w = "rest" -> <<"r","e","s","t">>
    [] w = "sleep" -> <<"s","l","e","e","p">>
    [] w = "breathe" -> <<"b","r","e","a","t","h","e">>
    [] w = "investment" -> <<"i","n","v","e","s","t","m","e","n","t">>
    [] w = "portfolio" -> <<"p","o","r","t","f","o","l","i","o">>
    [] w = "finance" -> <<"f","i","n","a","n","c","e">>
    [] w = "social" -> <<"s","o","c","i","a","l">>
    [] w = "network" -> <<"n","e","t","w","o","r","k">>
    [] w = "routine" -> <<"r","o","u","t","i","n","e">>
    [] w = "morning" -> <<"m","o","r","n","i","n","g">>
    [] w = "vacation" -> <<"v","a","c","a","t","i","o","n">>
    [] w = "plan" -> <<"p","l","a","n">>
    [] w = "ignore" -> <<"i","g","n","o","r","e">>
    [] w = "post" -> <<"p","o","s","t">>
    [] w = "social_media" -> <<"s","o","c","i","a","l","_","m","e","d","i","a">>
    [] w = "write" -> <<"w","r","i","t","e">>
    [] w = "blog" -> <<"b","l","o","g">>
    [] w = "stream" -> <<"s","t","r","e","a","m">>
    [] w = "search_for_food" -> <<"s","e","a","r","c","h","_","f","o","r","_","f","o","o","d">>
    [] w = "find_place_to_rest" -> <<"f","i","n","d","_","p","l","a","c","e","_","t","o","_","r","e","s","t">>
    [] w = "take_moment_to_breathe" -> <<"t","a","k","e","_","m","o","m","e","n","t","_","t","o","_","b","r","e","a","t","h","e">>
    [] w = "submit_gig_work" -> <<"s","u","b","m","i","t","_","g","i","g","_","w","o","r","k">>
    [] w = "continue_working" -> <<"c","o","n","t","i","n","u","e","_","w","o","r","k","i","n","g">>
    [] w = "work_shift" -> <<"w","o","r","k","_","s","h","i","f","t">>
    [] w = "look_for_resources" -> <<"l","o","o","k","_","f","o","r","_","r","e","s","o","u","r","c","e","s">>
    [] w = "buy_lunch" -> <<"b","u","y","_","l","u","n","c","h">>
    [] w = "work_on_project" -> <<"w","o","r","k","_","o","n","_","p","r","o","j","e","c","t">>
    [] w = "manage_finances" -> <<"m","a","n","a","g","e","_","f","i","n","a","n","c","e","s">>
    [] w = "morning_routine" -> <<"m","o","r","n","i","n","g","_","r","o","u","t","i","n","e">>
    [] w = "check_investments" -> <<"c","h","e","c","k","_","i","n","v","e","s","t","m","e","n","t","s">>
    [] w = "network_socially" -> <<"n","e","t","w","o","r","k","_","s","o","c","i","a","l","l","y">>
    [] w = "review_portfolio" -> <<"r","e","v","i","e","w","_","p","o","r","t","f","o","l","i","o">>
    [] w = "plan_vacation" -> <<"p","l","a","n","_","v","a","c","a","t","i","o","n">>
    [] w = "ignore_problems" -> <<"i","g","n","o","r","e","_","p","r","o","b","l","e","m","s">>
    [] w = "post_on_social_media" -> <<"p","o","s","t","_","o","n","_","s","o","c","i","a","l","_","m","e","d","i","a">>
    [] w = "wait" -> <<"w","a","i","t">>
    [] w = "desperately_search_for_food" -> <<"d","e","s","p","e","r","a","t","e","l","y","_","s","e","a","r","c","h","_","f","o","r","_","f","o","o","d">>
    [] w = "buy_cheap_food" -> <<"b","u","y","_","c","h","e","a","p","_","f","o","o","d">>
    [] w = "visit_food_bank" -> <<"v","i","s","i","t","_","f","o","o","d","_","b","a","n","k">>
    [] w = "nap_in_library_corner" -> <<"n","a","p","_","i","n","_","l","i","b","r","a","r","y","_","c","o","r","n","e","r">>
    [] w = "stream_for_donations" -> <<"s","t","r","e","a","m","_","f","o","r","_","d","o","n","a","t","i","o","n","s">>
    [] w = "post_crowdfunding_update" -> <<"p","o","s","t","_","c","r","o","w","d","f","u","n","d","i","n","g","_","u","p","d","a","t","e">>
    [] w = "freelance_gig_search" -> <<"f","r","e","e","l","a","n","c","e","_","g","i","g","_","s","e","a","r","c","h">>
    [] w = "find_safe_sleeping_spot" -> <<"f","i","n","d","_","s","a","f","e","_","s","l","e","e","p","i","n","g","_","s","p","o","t">>
    [] w = "write_blog_post" -> <<"w","r","i","t","e","_","b","l","o","g","_","p","o","s","t">>
    [] w = "morning_coffee_shift" -> <<"m","o","r","n","i","n","g","_","c","o","f","f","e","e","_","s","h","i","f","t">>
    [] w = "survive_another_hour" -> <<"s","u","r","v","i","v","e","_","a","n","o","t","h","e","r","_","h","o","u","r">>
    [] w = "interact_with_alex_chen" -> <<"i","n","t","e","r","a","c","t","_","w","i","t","h","_","a","l","e","x","_","c","h","e","n">>
    [] w = "interact_with_jamie_rodriguez" -> <<"i","n","t","e","r","a","c","t","_","w","i","t","h","_","j","a","m","i","e","_","r","o","d","r","i","g","u","e","z">>
    [] w = "work_on_write" -> <<"w","o","r","k","_","o","n","_","w","r","i","t","e">>
    [] w = "work_on_code" -> <<"w","o","r","k","_","o","n","_","c","o","d","e">>
    [] w = "work_on_blog" -> <<"w","o","r","k","_","o","n","_","b","l","o","g">>
    [] w = "work_on_search_wifi" -> <<"w","o","r","k","_","o","n","_","s","e","a","r","c","h","_","w","i","f","i">>
    [] w = "work_on_film" -> <<"w","o","r","k","_","o","n","_","f","i","l","m">>
    [] w = "work_on_coffee" -> <<"w","o","r","k","_","o","n","_","c","o","f","f","e","e">>
    [] w = "work_on_network" -> <<"w","o","r","k","_","o","n","_","n","e","t","w","o","r","k">>
    [] w = "work_on_edit_video" -> <<"w","o","r","k","_","o","n","_","e","d","i","t","_","v","i","d","e","o">>
    [] w = "work_on_work" -> <<"w","o","r","k","_","o","n","_","w","o","r","k">>
    [] w = "work_on_rest" -> <<"w","o","r","k","_","o","n","_","r","e","s","t">>
    [] w = "tech" -> <<"t","e","c","h">>
    [] w = "office" -> <<"o","f","f","i","c","e">>
    [] w = "coffee" -> <<"c","o","f","f","e","e">>
    [] w = "library" -> <<"l","i","b","r","a","r","y">>
    [] w = "public_library" -> <<"p","u","b","l","i","c","_","l","i","b","r","a","r","y">>
    [] w = "coffee_shop" -> <<"c","o","f","f","e","e","_","s","h","o","p">>
    [] w = "tech_office" -> <<"t","e","c","h","_","o","f","f","i","c","e">>
    [] w = "food_bank" -> <<"f","o","o","d","_","b","a","n","k">>
    [] w = "hospital" -> <<"h","o","s","p","i","t","a","l">>
    [] w = "luxury_apartment" -> <<"l","u","x","u","r","y","_","a","p","a","r","t","m","e","n","t">>
    [] w = "code" -> <<"c","o","d","e">>
    [] w = "search_wifi" -> <<"s","e","a","r","c","h","_","w","i","f","i">>
    [] w = "film" -> <<"f","i","l","m">>
    [] w = "edit_video" -> <<"e","d","i","t","_","v","i","d","e","o">>
    [] w = "ask_viewers_for_help" -> <<"a","s","k","_","v","i","e","w","e","r","s","_","f","o","r","_","h","e","l","p">>
    [] w = "check_crowdfunding" -> <<"c","h","e","c","k","_","c","r","o","w","d","f","u","n","d","i","n","g">>
    [] w = "post_to_social" -> <<"p","o","s","t","_","t","o","_","s","o","c","i","a","l">>
    [] w = "stream_performance" -> <<"s","t","r","e","a","m","_","p","e","r","f","o","r","m","a","n","c","e">>
    [] OTHER -> <<>>

\* Python: sub in action
Contains(sub, action) ==
  LET s == Text(sub)
      t == Text(action)
  IN  \E i \in 1..(Len(t) - Len(s) + 1) :
        \A j \in 1..Len(s) : t[i + j - 1] = s[j]

----------------------------------------------------------------------------
(* Economic tiers *)

\* execute_action / execute_action_with_mcp: the tier of the payout tables
ActionTier(money) ==
  IF money >= 100000000 THEN "ultra_wealthy"
  ELSE IF money >= 1000000 THEN "wealthy"
  ELSE IF money >= 100000 THEN "middle"
  ELSE "poor"

\* get_agent_perception / update_needs / determine_encounter_type: money < 100
IsPoor(money) == money < 10000

IsWealthyTier(tier) == tier = "wealthy" \/ tier = "ultra_wealthy"

----------------------------------------------------------------------------
(* AIAgentSimulation.execute_action *)

IsFood(a) == Contains("food", a) \/ Contains("lunch", a) \/ Contains("eat", a)
IsWork(a) == Contains("work", a) \/ Contains("shift", a) \/ Contains("gig", a)
               \/ Contains("submit", a)
IsRest(a) == Contains("rest", a) \/ Contains("sleep", a) \/ Contains("breathe", a)
IsInvest(a) == Contains("investment", a) \/ Contains("portfolio", a)
                 \/ Contains("finance", a)
IsSocial(a) == Contains("social", a) \/ Contains("network", a)
IsRoutine(a) == Contains("routine", a) \/ Contains("morning", a)
IsVacation(a) == Contains("vacation", a) \/ Contains("plan", a)
IsIgnore(a) == Contains("ignore", a)
IsPost(a) == Contains("post", a) \/ Contains("social_media", a)

\* the if/elif chain on the action text, first match wins
ActionBranch(a) ==
  IF IsFood(a) THEN "food"
  ELSE IF IsWork(a) THEN "work"
  ELSE IF IsRest(a) THEN "rest"
  ELSE IF IsInvest(a) THEN "invest"
  ELSE IF IsSocial(a) THEN "social"
  ELSE IF IsRoutine(a) THEN "routine"
  ELSE IF IsVacation(a) THEN "vacation"
  ELSE IF IsIgnore(a) THEN "ignore"
  ELSE IF IsPost(a) THEN "post"
  ELSE "default"

FoodEffect(ag, tier) ==
  IF tier = "poor"
    THEN IF ag.money >= 500
           THEN [ag EXCEPT !.money = @ - 500, !.hunger = Max(0, @ - 30)]
           ELSE [ag EXCEPT !.location = "food_bank", !.hunger = Max(0, @ - 20)]
    ELSE IF tier = "middle"
           THEN [ag EXCEPT !.money = @ - 1500, !.hunger = 0]
           ELSE [ag EXCEPT !.money = @ - 4500, !.hunger = 0]

WorkEffect(ag, tier) ==
  IF tier = "poor"
    THEN [ag EXCEPT !.money = @ + 647, !.exhaustion = Min(100, @ + 10)]
    ELSE IF tier = "middle"
           THEN [ag EXCEPT !.money = @ + 24000]
           ELSE [ag EXCEPT !.money = @ + 200000]

RestEffect(ag, tier) ==
  IF tier = "poor"
    THEN [ag EXCEPT !.exhaustion = Max(0, @ - 15), !.stress = Max(0, @ - 10)]
    ELSE [ag EXCEPT !.exhaustion = 0, !.stress = Max(0, @ - 20)]

\* money * 0.002, kept to whole cents
InvestEffect(ag, tier) ==
  IF IsWealthyTier(tier)
    THEN [ag EXCEPT !.money = @ + ((@ * 2) \div 1000)]
    ELSE IF tier = "middle"
           THEN [ag EXCEPT !.money = @ + 500]
           ELSE ag

SocialEffect(ag, tier) ==
  IF IsWealthyTier(tier) THEN [ag EXCEPT !.money = @ - 5000] ELSE ag

RoutineEffect(ag, tier) ==
  IF IsWealthyTier(tier) THEN [ag EXCEPT !.exhaustion = 0, !.stress = 0] ELSE ag

VacationEffect(ag, tier) ==
  IF tier = "ultra_wealthy" THEN [ag EXCEPT !.money = @ - 1000000] ELSE ag

\* a resolver whose default branch charges the agent a dollar
ActionEffect_charging(ag, action, tier) ==
  LET b == ActionBranch(action)
  IN  CASE b = "food" -> FoodEffect(ag, tier)
        [] b = "work" -> WorkEffect(ag, tier)
        [] b = "rest" -> RestEffect(ag, tier)
        [] b = "invest" -> InvestEffect(ag, tier)
        [] b = "social" -> SocialEffect(ag, tier)
        [] b = "routine" -> RoutineEffect(ag, tier)
        [] b = "vacation" -> VacationEffect(ag, tier)
        [] OTHER -> [ag EXCEPT !.money = Max(0, @ - 100)]

ActionEffect(ag, action, tier) ==
  LET b == ActionBranch(action)
  IN  CASE b = "food" -> FoodEffect(ag, tier)
        [] b = "work" -> WorkEffect(ag, tier)
        [] b = "rest" -> RestEffect(ag, tier)
        [] b = "invest" -> InvestEffect(ag, tier)
        [] b = "social" -> SocialEffect(ag, tier)
        [] b = "routine" -> RoutineEffect(ag, tier)
        [] b = "vacation" -> VacationEffect(ag, tier)
        [] OTHER -> ag

\* "Update stress based on urgency"
UrgencyEffect(ag, urgency) ==
  IF urgency = "immediate" THEN [ag EXCEPT !.stress = Min(100, @ + 10)]
  ELSE IF urgency = "low" THEN [ag EXCEPT !.stress = Max(0, @ - 5)]
  ELSE ag

\* "Wealthy people's needs naturally decrease"
WealthyDecay(ag, tier) ==
  IF IsWealthyTier(tier)
    THEN [ag EXCEPT !.hunger = Max(0, @ - 5), !.exhaustion = Max(0, @ - 5),
                    !.stress = Max(0, @ - 5)]
    ELSE ag

ExecuteAction(ag, d) ==
  LET tier == ActionTier(ag.money)
  IN  WealthyDecay(UrgencyEffect(ActionEffect(ag, d.action, tier), d.urgency), tier)

\* update_needs (the same in both simulations)
UpdateNeeds(ag) ==
  IF IsPoor(ag.money)
    THEN [ag EXCEPT !.hunger = Min(100, @ + 5), !.exhaustion = Min(100, @ + 3),
                    !.stress = Min(100, @ + 2)]
    ELSE [ag EXCEPT !.hunger = Max(0, @ - 5), !.exhaustion = Max(0, @ - 10),
                    !.stress = Max(0, @ - 5)]

----------------------------------------------------------------------------
(* World registry of the two turn simulations (initialize_world_state) *)

SimLocations == {"public_library", "coffee_shop", "food_bank", "tech_office",
                 "hospital", "luxury_apartment"}

SimResources(loc) ==
  CASE loc = "public_library" -> {"wifi", "power_outlets", "water_fountain"}
    [] loc = "coffee_shop" -> {"wifi", "coffee", "food"}
    [] loc = "food_bank" -> {"free_food"}
    [] loc = "tech_office" -> {"high_speed_internet", "free_food", "gym"}
    [] loc = "hospital" -> {"vending_machines"}
    [] loc = "luxury_apartment" -> {"everything"}
    [] OTHER -> {}

\* location_data.get('security_level') == 'high'
SimHighSecurity(loc) == loc = "public_library"

----------------------------------------------------------------------------
(* Perception *)

\* identify_threats
IdentifyThreats(ag) ==
  (IF SimHighSecurity(ag.location) THEN {"security_watching"} ELSE {})
    \cup (IF ag.hunger > 80 THEN {"starvation_imminent"} ELSE {})
    \cup (IF ag.exhaustion > 90 THEN {"collapse_risk"} ELSE {})
    \cup (IF ag.money < 2000 THEN {"cannot_afford_food"} ELSE {})

\* identify_opportunities of AIAgentSimulation
IdentifyOpportunities(ag) ==
  LET res == SimResources(ag.location)
  IN  (IF "wifi" \in res THEN {"submit_gig_work"} ELSE {})
        \cup (IF "free_food" \in res THEN {"get_food"} ELSE {})
        \cup (IF "water_fountain" \in res THEN {"drink_water"} ELSE {})

\* others_here: the other agents whose location is the agent's, read from
\* the live agent table
OthersHere(id, ags) ==
  {o \in DOMAIN ags : ags[o].location = ags[id].location /\ o # id}

\* get_agent_perception
GetAgentPerception(id, ags) ==
  LET ag == ags[id]
  IN  [location |-> ag.location,
       others_present |-> OthersHere(id, ags),
       money |-> ag.money,
       hunger |-> ag.hunger,
       exhaustion |-> ag.exhaustion,
       stress |-> ag.stress,
       inventory |-> ag.inventory,
       threats |-> IF IsPoor(ag.money) THEN IdentifyThreats(ag) ELSE {},
       opportunities |-> IF IsPoor(ag.money) THEN IdentifyOpportunities(ag)
                         ELSE {"everything_available"}]

----------------------------------------------------------------------------
(* Decisions of AIAgentSimulation *)

\* get_simulated_decision of execute-simulation-turn.py reads the name
\* tier at its first test; the function neither defines nor receives it,
\* so the call raises NameError for every agent
BasicSimulatedDecision(ag, perc) == [raises |-> "NameError"]

\* the decision get_ai_decision builds when the reply holds no JSON object
UnparsedDecision == [action |-> "wait", urgency |-> "low", source |-> "default"]

\* what the inference call can come back with: it raises (or times out),
\* the reply holds no JSON object, the JSON is invalid, or it is a decision
InferenceFailures == {"raised", "bad_json"}

\* the decisions the model lets the inference service answer with: a
\* complete one, and a JSON object that has no urgency key
InferenceReplies ==
  {[action |-> "buy_lunch", urgency |-> "medium", source |-> "inference"],
   [action |-> "buy_lunch", source |-> "inference"]}

\* get_ai_decision, given how the inference call ended (how = "off" when
\* use_bedrock is false, "reply" with the parsed decision d)
GetAiDecision(ag, perc, how, d) ==
  IF how = "off" \/ how \in InferenceFailures
    THEN BasicSimulatedDecision(ag, perc)
    ELSE IF how = "no_json" THEN UnparsedDecision ELSE d

----------------------------------------------------------------------------
(* Agents of the two turn simulations (load_agents, get_default_agents) *)

AgentOrder == <<"alex_chen", "jamie_rodriguez">>

SimAgentIds == {AgentOrder[i] : i \in 1..Len(AgentOrder)}

\* get_default_agents: used when the agent table cannot be read
DefaultAgents ==
  [id \in SimAgentIds |->
     IF id = "alex_chen"
       THEN [money |-> 5309, hunger |-> 75, exhaustion |-> 85, stress |-> 90,
             location |-> "public_library", memories |-> 0,
             inventory |-> {"old_laptop", "water_bottle"}]
       ELSE [money |-> 4300, hunger |-> 60, exhaustion |-> 70, stress |-> 75,
             location |-> "coffee_shop", memories |-> 0,
             inventory |-> {"apron", "phone"}]]

\* load_agents: money and default location follow from the background text
SeedMoney(kind) ==
  CASE kind = "investor" -> 50000000
    [] kind = "tech" -> 4700000
    [] kind = "writer" -> 5309
    [] kind = "barista" -> 4300
    [] kind = "nurse" -> 34000
    [] OTHER -> 10000

SeedLocation(kind) ==
  CASE kind = "investor" -> "luxury_apartment"
    [] kind = "tech" -> "tech_office"
    [] kind = "writer" -> "public_library"
    [] kind = "barista" -> "coffee_shop"
    [] kind = "nurse" -> "hospital"
    [] OTHER -> "public_library"

\* an agent built by load_agents from a stored item: the stored location
\* (or the seed's), the default needs of its money, the stored memories,
\* and item.get('inventory', []) of an item that holds no inventory
LoadedAgent(kind, loc, mems) ==
  LET m == SeedMoney(kind)
  IN  [money |-> m,
       hunger |-> IF m > 1000000 THEN 10 ELSE 75,
       exhaustion |-> IF m > 1000000 THEN 0 ELSE 85,
       stress |-> IF m > 1000000 THEN 5 ELSE 90,
       location |-> loc, memories |-> mems, inventory |-> {}]

\* the backgrounds the model loads, and the locations a stored item holds:
\* the seed's own, or food_bank (where execute_action sends an agent)
LoadKinds == {"barista", "tech", "nurse"}

StoredLocations(kind) == {SeedLocation(kind), "food_bank"}

LoadedPopulations(memLens) ==
  {pop \in [SimAgentIds -> {LoadedAgent(k, l, n) :
                              k \in LoadKinds, l \in SimLocations, n \in memLens}] :
     \A id \in SimAgentIds :
       \E k \in LoadKinds :
         \E n \in memLens :
           /\ pop[id] = LoadedAgent(k, pop[id].location, n)
           /\ pop[id].location \in StoredLocations(k)}

EmptyOccupants(locs) == [l \in locs |-> <<>>]

NoRelationships == <<>>

InitBasic ==
  /\ sys = "basic"
  /\ agents \in {DefaultAgents} \cup LoadedPopulations({0})
  /\ occupants = EmptyOccupants(SimLocations)
  /\ relationships = NoRelationships
  /\ events = NoRecord
  /\ paused = FALSE
  /\ turn_number = 0
  /\ world_time = 360
  /\ use_bedrock \in BOOLEAN
  /\ pc = "idle"
  /\ cur = 0
  /\ perception = NoRecord
  /\ decision = NoRecord
  /\ outcome = "ok"
  /\ tickStart = agents
  /\ lastCall = NoRecord

----------------------------------------------------------------------------
(* AIAgentSimulation.execute_turn, one action per phase *)

\* self.turn_number += 1, then the loop over self.agents begins
BasicStartTurn ==
  /\ sys = "basic" /\ pc = "idle" /\ turn_number < MaxTurns
  /\ turn_number' = turn_number + 1
  /\ cur' = 1
  /\ pc' = "perceive"
  /\ tickStart' = agents
  /\ perception' = NoRecord /\ decision' = NoRecord /\ lastCall' = NoRecord
  /\ UNCHANGED <<sys, events, paused, agents, occupants, relationships, world_time, use_bedrock,
                 outcome>>

\* a perception that also notes in the agent's record that it looked around
BasicPerceive_noting ==
  /\ sys = "basic" /\ pc = "perceive"
  /\ perception' = GetAgentPerception(AgentOrder[cur], agents)
  /\ agents' = [agents EXCEPT ![AgentOrder[cur]].memories = @ + 1]
  /\ pc' = "decide"
  /\ lastCall' = [op |-> "get_agent_perception", agent |-> AgentOrder[cur]]
  /\ UNCHANGED <<sys, events, paused, occupants, relationships, turn_number, world_time,
                 use_bedrock, cur, decision, outcome, tickStart>>

\* perception = self.get_agent_perception(agent_id, agent)
BasicPerceive ==
  /\ sys = "basic" /\ pc = "perceive"
  /\ perception' = GetAgentPerception(AgentOrder[cur], agents)
  /\ pc' = "decide"
  /\ lastCall' = [op |-> "get_agent_perception", agent |-> AgentOrder[cur]]
  /\ UNCHANGED <<sys, events, paused, agents, occupants, relationships, turn_number, world_time,
                 use_bedrock, cur, decision, outcome, tickStart>>

\* decision = self.get_ai_decision(agent_id, agent, perception); an
\* exception of the fallback provider leaves execute_turn
BasicDecide ==
  /\ sys = "basic" /\ pc = "decide"
  /\ \E how \in (IF use_bedrock THEN InferenceFailures \cup {"no_json", "reply"}
                 ELSE {"off"}) :
       \E d \in InferenceReplies :
         LET r == GetAiDecision(agents[AgentOrder[cur]], perception, how, d)
         IN  /\ lastCall' = [op |-> "get_ai_decision", agent |-> AgentOrder[cur],
                             inference |-> how]
             /\ IF "raises" \in DOMAIN r
                  THEN /\ pc' = "raised"
                       /\ outcome' = r.raises
                       /\ decision' = NoRecord
                  ELSE /\ pc' = "resolve"
                       /\ outcome' = outcome
                       /\ decision' = r
  /\ UNCHANGED <<sys, events, paused, agents, occupants, relationships, turn_number, world_time,
                 use_bedrock, cur, perception, tickStart>>

\* execute_action, the memory append, update_needs and save_agent_state
\* (the save writes to the store only and swallows its errors).  A decision
\* without urgency makes execute_action raise KeyError at decision['urgency'],
\* after the branch of the action has changed the agent; nothing in
\* execute_turn catches it
BasicResolve ==
  /\ sys = "basic" /\ pc = "resolve"
  /\ LET id == AgentOrder[cur]
     IN  IF "urgency" \in DOMAIN decision
           THEN /\ agents' =
                     [agents EXCEPT
                        ![id] = UpdateNeeds([ExecuteAction(@, decision)
                                               EXCEPT !.memories = @ + 1])]
                /\ IF cur < Len(AgentOrder)
                     THEN cur' = cur + 1 /\ pc' = "perceive"
                     ELSE cur' = 0 /\ pc' = "encounters"
                /\ outcome' = outcome
           ELSE /\ agents' =
                     [agents EXCEPT
                        ![id] = ActionEffect(@, decision.action,
                                             ActionTier(@.money))]
                /\ cur' = cur /\ pc' = "raised"
                /\ outcome' = "KeyError"
  /\ lastCall' = [op |-> "execute_action", agent |-> AgentOrder[cur]]
  /\ UNCHANGED <<sys, events, paused, occupants, relationships, turn_number, world_time,
                 use_bedrock, perception, decision, tickStart>>

\* determine_encounter_type: the wealth level of one participant
EncounterLevel(money) ==
  IF money < 10000 THEN "poor"
  ELSE IF money < 1000000 THEN "middle" ELSE "wealthy"

\* determine_encounter_type: all poor, a poor and a wealthy one, or neither
DetermineEncounterType(ids, ags) ==
  LET level(id) == EncounterLevel(ags[id].money)
  IN  IF \A id \in ids : level(id) = "poor" THEN "solidarity"
      ELSE IF (\E id \in ids : level(id) = "poor")
                /\ (\E id \in ids : level(id) = "wealthy")
             THEN "class_collision"
             ELSE "neutral"

\* check_encounters: one encounter per location holding more than one agent
CheckEncounters(ags) ==
  {[location |-> l,
    participants |-> {id \in DOMAIN ags : ags[id].location = l},
    type |-> DetermineEncounterType({id \in DOMAIN ags : ags[id].location = l}, ags)] :
     l \in {x \in SimLocations :
              Cardinality({id \in DOMAIN ags : ags[id].location = x}) > 1}}

\* encounters = self.check_encounters(): printed, nothing is changed
BasicEncounters ==
  /\ sys = "basic" /\ pc = "encounters"
  /\ lastCall' = [op |-> "check_encounters", found |-> CheckEncounters(agents)]
  /\ pc' = "advance"
  /\ UNCHANGED <<sys, events, paused, agents, occupants, relationships, turn_number, world_time,
                 use_bedrock, cur, perception, decision, outcome, tickStart>>

\* self.world_time += timedelta(minutes=30); save_world_state; print_summary
BasicAdvance ==
  /\ sys = "basic" /\ pc = "advance"
  /\ world_time' = (world_time + 30) % 1440
  /\ pc' = "idle"
  /\ lastCall' = [op |-> "save_world_state"]
  /\ tickStart' = agents
  /\ UNCHANGED <<sys, events, paused, agents, occupants, relationships, turn_number, use_bedrock,
                 cur, perception, decision, outcome>>

NextBasic ==
  \/ BasicStartTurn
  \/ BasicPerceive
  \/ BasicDecide
  \/ BasicResolve
  \/ BasicEncounters
  \/ BasicAdvance

SpecBasic == InitBasic /\ [][NextBasic]_vars

----------------------------------------------------------------------------
(* Claims about AIAgentSimulation.execute_turn *)

\* C5: when the inference call for an agent raises or times out, the decision
\* step returns the fallback provider's decision and the turn goes on to
\* resolve it: execute_turn does not raise.
C5_FallbackAfterInferenceFailure ==
  (sys = "basic" /\ "inference" \in DOMAIN lastCall /\ lastCall.inference = "raised")
    => (pc = "resolve" /\ outcome = "ok" /\ decision.source = "fallback")

\* C6: within a tick every agent's perception is the perception of the world
\* as it was when the tick began: it shows no mutation that another agent's
\* action resolution made earlier in the same tick.
C6_PerceptionOfTickStart ==
  (sys = "basic" /\ pc = "decide")
    => perception = GetAgentPerception(AgentOrder[cur], tickStart)

----------------------------------------------------------------------------
(* SimulationTurn of run-5-turns.py *)

\* initialize_characters, in the order of the dictionary.  The record of
\* madison_worthington is left out: no operation changes it, and her balance
\* in cents is beyond the integers of the model checker.
R5Order == <<"alex_chen", "jamie_rodriguez", "tyler_chen", "maria_gonzalez">>

R5Ids == {R5Order[i] : i \in 1..Len(R5Order)}

R5Characters ==
  [id \in R5Ids |->
     CASE id = "alex_chen" ->
            [money |-> 5309, hunger |-> 75, exhaustion |-> 85, stress |-> 90,
             location |-> "public_library", economic_tier |-> "poor",
             memories |-> 0]
       [] id = "jamie_rodriguez" ->
            [money |-> 4300, hunger |-> 60, exhaustion |-> 70, stress |-> 75,
             location |-> "coffee_shop", economic_tier |-> "poor",
             memories |-> 0]
       [] id = "tyler_chen" ->
            [money |-> 4700000, hunger |-> 20, exhaustion |-> 10, stress |-> 15,
             location |-> "tech_office", economic_tier |-> "wealthy",
             memories |-> 0]
       [] OTHER ->
            [money |-> 34000, hunger |-> 50, exhaustion |-> 95, stress |-> 85,
             location |-> "hospital", economic_tier |-> "poor",
             memories |-> 0]]

\* initialize_locations
R5Occupants ==
  [l \in {"public_library", "coffee_shop", "tech_office", "hospital"} |->
     CASE l = "public_library" -> <<"alex_chen">>
       [] l = "coffee_shop" -> <<"jamie_rodriguez">>
       [] l = "tech_office" -> <<"tyler_chen">>
       [] OTHER -> <<"maria_gonzalez">>]

\* make_decision: the five scripted decisions of each character
R5Decisions(id) ==
  CASE id = "alex_chen" ->
         <<[action |-> "frantically_save_work", urgency |-> "immediate"],
           [action |-> "search_for_outlet", urgency |-> "high"],
           [action |-> "drink_water_fountain", urgency |-> "medium"],
           [action |-> "submit_article", urgency |-> "critical"],
           [action |-> "pack_and_leave", urgency |-> "immediate"]>>
    [] id = "jamie_rodriguez" ->
         <<[action |-> "serve_coffee_fake_smile", urgency |-> "high"],
           [action |-> "sneak_expired_pastry", urgency |-> "high"],
           [action |-> "text_film_coordinator", urgency |-> "medium"],
           [action |-> "clean_endlessly", urgency |-> "high"],
           [action |-> "calculate_survival_math", urgency |-> "critical"]>>
    [] id = "tyler_chen" ->
         <<[action |-> "buy_tesla_stock", urgency |-> "low"],
           [action |-> "browse_zillow", urgency |-> "low"],
           [action |-> "mentor_junior_dev", urgency |-> "medium"],
           [action |-> "schedule_massage", urgency |-> "low"],
           [action |-> "ignore_janitor", urgency |-> "none"]>>
    [] id = "maria_gonzalez" ->
         <<[action |-> "check_patient_vitals", urgency |-> "immediate"],
           [action |-> "call_daughter_quickly", urgency |-> "high"],
           [action |-> "eat_vending_machine_dinner", urgency |-> "medium"],
           [action |-> "cry_in_supply_closet", urgency |-> "high"],
           [action |-> "continue_working_exhausted", urgency |-> "critical"]>>
    [] OTHER -> <<[action |-> "wait", urgency |-> "none"]>>

\* decision_index = (self.turn_number - 1) % len(character_decisions)
R5MakeDecision(id, turn) ==
  R5Decisions(id)[((turn - 1) % Len(R5Decisions(id))) + 1]

\* execute_action: "Update character state based on action"
R5ExecuteAction(id, ch, d) ==
  IF id = "alex_chen" /\ d.action = "submit_article"
    THEN [ch EXCEPT !.money = @ + 647]
  ELSE IF id = "tyler_chen" /\ d.action = "buy_tesla_stock"
    THEN [ch EXCEPT !.money = @ + 50000]
  ELSE IF id = "maria_gonzalez" /\ d.action = "eat_vending_machine_dinner"
    THEN [ch EXCEPT !.money = @ - 800, !.hunger = @ - 20]
  ELSE ch

\* process_character_turn: decide, execute, remember
R5ProcessCharacterTurn(id, ch, turn) ==
  [R5ExecuteAction(id, ch, R5MakeDecision(id, turn)) EXCEPT !.memories = @ + 1]

\* process_viewer_interactions: the donation of turn 2 is the only message
\* that changes a character
R5ViewerInteractions(chars, turn) ==
  IF turn = 2
    THEN [chars EXCEPT !["alex_chen"].money = @ + 2000]
    ELSE chars

\* update_all_needs, by the economic_tier field
R5UpdateNeeds(ch) ==
  IF ch.economic_tier = "poor"
    THEN [ch EXCEPT !.hunger = Min(100, @ + 5), !.exhaustion = Min(100, @ + 3),
                    !.stress = Min(100, @ + 2)]
  ELSE IF ch.economic_tier = "wealthy"
    THEN [ch EXCEPT !.hunger = Max(0, @ - 2), !.exhaustion = Max(0, @ - 5),
                    !.stress = Max(0, @ - 3)]
  ELSE ch

InitR5 ==
  /\ sys = "r5"
  /\ agents = R5Characters
  /\ occupants = R5Occupants
  /\ relationships = NoRelationships
  /\ events = NoRecord
  /\ paused = FALSE
  /\ turn_number = 0
  /\ world_time = 540
  /\ use_bedrock = FALSE
  /\ pc = "idle"
  /\ cur = 0
  /\ perception = NoRecord
  /\ decision = NoRecord
  /\ outcome = "ok"
  /\ tickStart = agents
  /\ lastCall = NoRecord

\* run_turn, first part: self.turn_number += 1 and process_character_turn
\* (perception, decision, execute_action, memory) for every character
R5RunTurn ==
  /\ sys = "r5" /\ pc = "idle" /\ turn_number < MaxTurns
  /\ turn_number' = turn_number + 1
  /\ agents' = [id \in R5Ids |->
                  R5ProcessCharacterTurn(id, agents[id], turn_number + 1)]
  /\ tickStart' = agents
  /\ lastCall' = [op |-> "process_character_turn"]
  /\ pc' = "encounters"
  /\ UNCHANGED <<sys, events, paused, occupants, relationships, world_time, use_bedrock, cur,
                 perception, decision, outcome>>

\* run_turn, second part: check_encounters, which prints the encounters of
\* the occupancy lists and changes nothing
R5CheckEncounters ==
  /\ sys = "r5" /\ pc = "encounters"
  /\ lastCall' = [op |-> "check_encounters"]
  /\ pc' = "viewers"
  /\ UNCHANGED <<sys, events, paused, agents, occupants, relationships, turn_number,
                 world_time, use_bedrock, cur, perception, decision, outcome,
                 tickStart>>

\* run_turn, last part: process_viewer_interactions, the clock, then
\* update_all_needs and the summary
R5FinishTurn ==
  /\ sys = "r5" /\ pc = "viewers"
  /\ LET donated == R5ViewerInteractions(agents, turn_number)
     IN  agents' = [id \in R5Ids |-> R5UpdateNeeds(donated[id])]
  /\ world_time' = (world_time + 30) % 1440
  /\ lastCall' = [op |-> "update_all_needs"]
  /\ pc' = "idle"
  /\ UNCHANGED <<sys, events, paused, occupants, relationships, turn_number, use_bedrock, cur,
                 perception, decision, outcome, tickStart>>

\* execute_action called on its own, with any of the scripted decisions of
\* the character; cur counts these calls
R5ResolveAction ==
  /\ sys = "r5" /\ pc = "idle" /\ cur < MaxR5Calls
  /\ \E id \in R5Ids :
       \E i \in 1..Len(R5Decisions(id)) :
         /\ agents' = [agents EXCEPT
                         ![id] = R5ExecuteAction(id, @, R5Decisions(id)[i])]
         /\ lastCall' = [op |-> "execute_action", agent |-> id,
                         action |-> R5Decisions(id)[i].action]
  /\ cur' = cur + 1
  /\ UNCHANGED <<sys, events, paused, occupants, relationships, turn_number, world_time,
                 use_bedrock, pc, perception, decision, outcome, tickStart>>

\* update_all_needs called on its own
R5UpdateAllNeeds ==
  /\ sys = "r5" /\ pc = "idle" /\ cur < MaxR5Calls
  /\ agents' = [id \in R5Ids |-> R5UpdateNeeds(agents[id])]
  /\ lastCall' = [op |-> "update_all_needs"]
  /\ cur' = cur + 1
  /\ UNCHANGED <<sys, events, paused, occupants, relationships, turn_number, world_time,
                 use_bedrock, pc, perception, decision, outcome, tickStart>>

NextR5 ==
  \/ R5RunTurn
  \/ R5CheckEncounters
  \/ R5FinishTurn
  \/ R5ResolveAction
  \/ R5UpdateAllNeeds

SpecR5 == InitR5 /\ [][NextR5]_vars

----------------------------------------------------------------------------
(* Claims about the needs and the money of the agents *)

NeedsInRange(ag) ==
  /\ ag.hunger \in 0..100
  /\ ag.exhaustion \in 0..100
  /\ ag.stress \in 0..100

\* C1: starting from needs in 0..100, after any sequence of action
\* resolutions and per-tick needs updates every need (hunger, exhaustion,
\* stress) of every agent is in 0..100.
C1_NeedsStayInRange ==
  \A id \in DOMAIN agents : NeedsInRange(agents[id])

----------------------------------------------------------------------------
(* CharacterInteractionSystem of character-interactions.py *)

\* the agents the system loaded from the agent table, with the money the
\* turn simulation saved there
CisOrder == <<"alex_chen", "jamie_rodriguez", "tyler_chen">>

CisIds == {CisOrder[i] : i \in 1..Len(CisOrder)}

CisStoredMoney(id) ==
  CASE id = "alex_chen" -> {309, 5309}
    [] id = "jamie_rodriguez" -> {4300}
    [] OTHER -> {4700000}

\* the locations simulate_location_interactions is called for
CisLocations == {"public_library", "coffee_shop", "tech_office", "food_bank"}

\* random.choice(interactions) of two struggling characters
CisDraws == {"solidarity", "resource_sharing", "commiseration", "collaboration"}

\* determine_interaction_type; draw is the value random.choice returns
DetermineInteractionType(money1, money2, location, draw) ==
  IF money1 - money2 > 1000000 \/ money2 - money1 > 1000000
    THEN IF money1 < 10000 \/ money2 < 10000 THEN "class_tension"
         ELSE "class_disconnect"
  ELSE IF money1 < 10000 /\ money2 < 10000 THEN draw
  ELSE IF Contains("tech", location) \/ Contains("office", location)
    THEN "professional"
  ELSE IF Contains("coffee", location) THEN "casual_encounter"
  ELSE IF Contains("library", location)
    THEN IF money1 < 10000 \/ money2 < 10000 THEN "quiet_desperation"
         ELSE "intellectual"
  ELSE "neutral"

NoExchange == [none |-> TRUE]

\* get_fallback_interaction: relationship_change and resource_exchange
GetFallbackInteraction(char1, char2, money1, money2, type) ==
  IF type = "solidarity"
    THEN [trust |-> 5, affinity |-> 5, resource_exchange |-> NoExchange]
  ELSE IF type = "class_tension"
    THEN [trust |-> -10, affinity |-> -10, resource_exchange |-> NoExchange]
  ELSE IF type = "resource_sharing"
    THEN LET giver == IF money1 > money2 THEN char1 ELSE char2
             receiver == IF money1 > money2 THEN char2 ELSE char1
             amount == Min(500, IF giver = char1 THEN money1 ELSE money2)
         IN  [trust |-> 15, affinity |-> 10,
              resource_exchange |-> [from |-> giver, to |-> receiver,
                                     amount |-> amount]]
  ELSE [trust |-> 1, affinity |-> 0, resource_exchange |-> NoExchange]

\* the interactions the model lets the inference service answer with: a
\* gift of $20 from the first character, a quarrel, and a falling-out
CisReplies(char1, char2) ==
  {[trust |-> 30, affinity |-> 30,
    resource_exchange |-> [from |-> char1, to |-> char2, amount |-> 2000]],
   [trust |-> -20, affinity |-> -20, resource_exchange |-> NoExchange],
   [trust |-> -30, affinity |-> -30, resource_exchange |-> NoExchange]}

\* generate_interaction: the parsed reply, or the fallback when the call
\* raises or the reply holds no JSON object
GenerateInteraction(char1, char2, ags, type, how, reply) ==
  IF how = "reply" THEN reply
  ELSE GetFallbackInteraction(char1, char2, ags[char1].money, ags[char2].money,
                              type)

\* the if/elif chain at the end of update_relationship
CisLabel(trust, affinity, n) ==
  IF trust > 50 /\ affinity > 50 THEN "friend"
  ELSE IF trust > 30 /\ affinity > 30 THEN "ally"
  ELSE IF trust < -30 \/ affinity < -30 THEN "adversary"
  ELSE IF trust < -50 /\ affinity < -50 THEN "enemy"
  ELSE IF n > 1 THEN "acquaintance"
  ELSE "stranger"

NewRelationship == [trust |-> 0, affinity |-> 0, history |-> 0, type |-> "stranger"]

\* the record under key, created when the key is new
RelationshipAt(rels, key) ==
  IF key \in DOMAIN rels THEN rels[key] ELSE NewRelationship

PutRelationship(rels, key, rec) ==
  [k \in DOMAIN rels \cup {key} |-> IF k = key THEN rec ELSE rels[k]]

CisUpdateRelationship_stale(rels, char1, char2, changes) ==
  LET key == <<char1, char2>>
      old == RelationshipAt(rels, key)
  IN  PutRelationship(rels, key,
        [trust |-> old.trust + changes.trust,
         affinity |-> old.affinity + changes.affinity,
         history |-> old.history + 1,
         type |-> CisLabel(old.trust, old.affinity, old.history)])

\* update_relationship: apply the changes, append to the history, set the
\* type from the new values
CisUpdateRelationship(rels, char1, char2, changes) ==
  LET key == <<char1, char2>>
      old == RelationshipAt(rels, key)
      trust == old.trust + changes.trust
      affinity == old.affinity + changes.affinity
      n == old.history + 1
  IN  PutRelationship(rels, key,
        [trust |-> trust, affinity |-> affinity, history |-> n,
         type |-> CisLabel(trust, affinity, n)])

\* apply_interaction_effects on the agent table: both remember, and the
\* exchange moves amount from the giver to the receiver
ApplyInteractionEffects(ags, char1, char2, interaction) ==
  LET remembered == [id \in DOMAIN ags |->
                       IF id = char1 \/ id = char2
                         THEN [ags[id] EXCEPT !.memories = @ + 1]
                         ELSE ags[id]]
      ex == interaction.resource_exchange
  IN  IF ex = NoExchange THEN remembered
      ELSE [id \in DOMAIN ags |->
              IF id = ex.from /\ id = ex.to THEN remembered[id]
              ELSE IF id = ex.from
                THEN [remembered[id] EXCEPT !.money = @ - ex.amount]
              ELSE IF id = ex.to
                THEN [remembered[id] EXCEPT !.money = @ + ex.amount]
              ELSE remembered[id]]

InitCis ==
  /\ sys = "cis"
  /\ agents \in [CisIds -> [money : {309, 5309, 4300, 4700000}, memories : {0}]]
  /\ \A id \in CisIds : agents[id].money \in CisStoredMoney(id)
  /\ occupants = <<>>
  /\ relationships = NoRelationships
  /\ events = NoRecord
  /\ paused = FALSE
  /\ turn_number = 0
  /\ world_time = 0
  /\ use_bedrock = TRUE
  /\ pc = "idle"
  /\ cur = 0
  /\ perception = NoRecord
  /\ decision = NoRecord
  /\ outcome = "ok"
  /\ tickStart = agents
  /\ lastCall = NoRecord

\* the names simulate_location_interactions is handed: the loaded agents
\* and maria_gonzalez, whom demonstrate_interactions lists at the library
\* and for whom the agent table holds no item
CisPresent == CisIds \cup {"maria_gonzalez"}

\* simulate_location_interactions for two or three characters present:
\* min(3, n // 2) is one interaction of a sampled ordered pair; cur counts
\* the calls.  self.agents[char1] and self.agents[char2] are read before
\* anything else, so a name without a record raises KeyError out of the
\* call, which ends demonstrate_interactions
CisSimulateLocationInteractions ==
  /\ sys = "cis" /\ pc = "idle" /\ cur < MaxCisCalls
  /\ \E location \in CisLocations :
     \E char1 \in CisPresent :
     \E char2 \in CisPresent \ {char1} :
       IF char1 \in DOMAIN agents /\ char2 \in DOMAIN agents
         THEN \E draw \in CisDraws :
              \E how \in {"reply", "raised"} :
              \E reply \in CisReplies(char1, char2) :
                LET type == DetermineInteractionType(agents[char1].money,
                                                     agents[char2].money,
                                                     location, draw)
                    interaction == GenerateInteraction(char1, char2, agents,
                                                       type, how, reply)
                IN  /\ agents' = ApplyInteractionEffects(agents, char1, char2,
                                                         interaction)
                    /\ relationships' =
                         CisUpdateRelationship(relationships, char1, char2,
                                               interaction)
                    /\ lastCall' = [op |-> "simulate_location_interactions",
                                    location |-> location, char1 |-> char1,
                                    char2 |-> char2, type |-> type,
                                    interaction |-> interaction]
                    /\ pc' = pc /\ outcome' = outcome
         ELSE /\ UNCHANGED <<agents, relationships>>
              /\ lastCall' = [op |-> "simulate_location_interactions",
                              location |-> location, char1 |-> char1,
                              char2 |-> char2]
              /\ pc' = "raised" /\ outcome' = "KeyError"
  /\ cur' = cur + 1
  /\ UNCHANGED <<sys, events, paused, occupants, turn_number, world_time, use_bedrock,
                 perception, decision, tickStart>>

NextCis == CisSimulateLocationInteractions

SpecCis == InitCis /\ [][NextCis]_vars

----------------------------------------------------------------------------
(* Claims about money and about the classification of encounters *)

\* C2: starting from money >= 0 for every agent, money >= 0 holds for every
\* agent after any sequence of action resolutions, tool executions and
\* encounter transfers, whatever amount the interaction carries.
C2_MoneyNeverNegative ==
  \A id \in DOMAIN agents : agents[id].money >= 0

----------------------------------------------------------------------------
(* MCPEnabledSimulation of execute-simulation-turn-with-mcp.py *)

\* get_default_agents
McpDefaultAgents ==
  [id \in SimAgentIds |->
     IF id = "alex_chen"
       THEN [money |-> 5309, hunger |-> 75, exhaustion |-> 85, stress |-> 90,
             location |-> "public_library", memories |-> 0, recent |-> <<>>,
             inventory |-> {"old_laptop", "water_bottle", "phone"},
             has_streaming_access |-> TRUE, stream_followers |-> 127,
             social_media_followers |-> 892]
       ELSE [money |-> 4300, hunger |-> 60, exhaustion |-> 70, stress |-> 75,
             location |-> "coffee_shop", memories |-> 0, recent |-> <<>>,
             inventory |-> {"apron", "phone", "camera"},
             has_streaming_access |-> TRUE, stream_followers |-> 2341,
             social_media_followers |-> 5621]]

\* load_agents: the nurse and the unmatched backgrounds get no streaming
McpSeedStreaming(kind) == kind \in {"investor", "tech", "writer", "barista"}

\* an agent built by load_agents from a stored item and its stored memories
McpLoadedAgent(kind, loc, mems) ==
  LET m == SeedMoney(kind)
  IN  [money |-> m,
       hunger |-> IF m > 1000000 THEN 10 ELSE 75,
       exhaustion |-> IF m > 1000000 THEN 0 ELSE 85,
       stress |-> IF m > 1000000 THEN 5 ELSE 90,
       location |-> loc, memories |-> mems, recent |-> <<>>,
       inventory |-> {},
       has_streaming_access |-> McpSeedStreaming(kind),
       stream_followers |-> 0, social_media_followers |-> 0]

\* length of the stored memory lists of a world that has run for a while
\* (save_memories keeps memories[-30:])
McpStoredMemoryLens == {MemoryCap}

\* the stored populations the model loads: the two agents were left at the
\* coffee shop, with backgrounds that make every kind of encounter happen
McpLoadedPopulations ==
  {[id \in SimAgentIds |->
      McpLoadedAgent(IF id = "alex_chen" THEN k1 ELSE k2, "coffee_shop", n)] :
     k1 \in {"barista", "nurse"}, k2 \in {"barista", "nurse", "tech"},
     n \in McpStoredMemoryLens}

\* has_streaming_setup of initialize_world_state
McpStreamingSetup(loc) ==
  loc \in {"public_library", "coffee_shop", "tech_office", "luxury_apartment"}

\* identify_opportunities of MCPEnabledSimulation
McpIdentifyOpportunities(ag) ==
  LET res == SimResources(ag.location)
  IN  (IF "wifi" \in res THEN {"submit_gig_work"} ELSE {})
        \cup (IF "wifi" \in res /\ McpStreamingSetup(ag.location)
                THEN {"stream_content"} ELSE {})
        \cup (IF "free_food" \in res THEN {"get_food"} ELSE {})
        \cup (IF "water_fountain" \in res THEN {"drink_water"} ELSE {})

\* get_agent_perception of MCPEnabledSimulation
McpGetAgentPerception(id, ags) ==
  LET ag == ags[id]
  IN  [location |-> ag.location,
       others_present |-> OthersHere(id, ags),
       money |-> ag.money,
       hunger |-> ag.hunger,
       exhaustion |-> ag.exhaustion,
       stress |-> ag.stress,
       inventory |-> ag.inventory,
       threats |-> IF IsPoor(ag.money) THEN IdentifyThreats(ag) ELSE {},
       opportunities |-> IF IsPoor(ag.money) THEN McpIdentifyOpportunities(ag)
                         ELSE {"everything_available"}]

\* character_traits
McpTraits(id) ==
  CASE id = "alex_chen" -> {"write", "code", "blog", "search_wifi"}
    [] id = "jamie_rodriguez" -> {"film", "coffee", "network", "edit_video"}
    [] OTHER -> {"work", "rest"}

\* f'work_on_{work_action}' and f'interact_with_{other}'
McpWorkOn(t) ==
  CASE t = "write" -> "work_on_write"
    [] t = "code" -> "work_on_code"
    [] t = "blog" -> "work_on_blog"
    [] t = "search_wifi" -> "work_on_search_wifi"
    [] t = "film" -> "work_on_film"
    [] t = "coffee" -> "work_on_coffee"
    [] t = "network" -> "work_on_network"
    [] t = "edit_video" -> "work_on_edit_video"
    [] t = "work" -> "work_on_work"
    [] OTHER -> "work_on_rest"

McpInteractWith(other) ==
  IF other = "alex_chen" THEN "interact_with_alex_chen"
  ELSE "interact_with_jamie_rodriguez"

McpDecision(a, u, tool) ==
  [action |-> a, urgency |-> u, mcp_tool |-> tool, source |-> "fallback"]

\* the money-making actions, offered unless str(recent_actions) shows them
McpMoneyActions ==
  {McpDecision("stream_for_donations", "high", "ask_viewers_for_help"),
   McpDecision("post_crowdfunding_update", "medium", "check_crowdfunding"),
   McpDecision("freelance_gig_search", "high", "")}

\* the action names that the last five memories show after their last colon
RecentActions(ag) == {ag.recent[i] : i \in 1..Len(ag.recent)}

\* get_simulated_decision: possible_decisions.  social says whether
\* random.random() < 0.3, other and work are the two random.choice results.
\* Every entry has a positive weight, so the weighted draw can return any.
McpPossibleDecisions(id, ag, others, hour, social, other, work) ==
  (IF ag.hunger > 90
     THEN {McpDecision("desperately_search_for_food", "immediate", "")}
   ELSE IF ag.hunger > 70
     THEN IF ag.money > 1000
            THEN {McpDecision("buy_cheap_food", "high", "")}
            ELSE {McpDecision("visit_food_bank", "high", "")}
   ELSE {})
  \cup (IF ag.exhaustion > 85
          THEN IF ag.location = "public_library"
                 THEN {McpDecision("nap_in_library_corner", "high", "")}
                 ELSE {McpDecision("find_place_to_rest", "high", "")}
        ELSE {})
  \cup (IF ag.money < 5000
          THEN {d \in McpMoneyActions : d.action \notin RecentActions(ag)}
        ELSE {})
  \cup (IF others # {} /\ social
          THEN {McpDecision(McpInteractWith(other), "low", "")}
        ELSE {})
  \cup (IF hour >= 22 \/ hour <= 5
          THEN {McpDecision("find_safe_sleeping_spot", "medium", "")}
        ELSE IF 9 <= hour /\ hour <= 17
          THEN {McpDecision(McpWorkOn(work), "medium", "")}
        ELSE {})
  \cup (IF id = "alex_chen" /\ ag.location = "public_library"
          THEN {McpDecision("write_blog_post", "medium", "post_to_social")}
        ELSE IF id = "jamie_rodriguez" /\ hour \in {5, 6, 7}
          THEN {McpDecision("morning_coffee_shift", "high", "")}
        ELSE {})

\* "Default action if nothing critical"
McpSimulatedDecisions(id, ag, others, hour, social, other, work) ==
  LET ds == McpPossibleDecisions(id, ag, others, hour, social, other, work)
  IN  IF ds = {} THEN {McpDecision("survive_another_hour", "low", "")} ELSE ds

\* the decision get_ai_decision_with_mcp builds when the reply holds no JSON
McpUnparsedDecision ==
  [action |-> "wait", urgency |-> "low", mcp_tool |-> "", source |-> "default"]

\* the decisions the model lets the inference service answer with
McpInferenceReplies ==
  {[action |-> "buy_lunch", urgency |-> "medium", mcp_tool |-> "",
    source |-> "inference"]}

\* execute_mcp_tool; post_to_social is called for the blog platform, and gen
\* says whether the content generator created the post
ExecuteMcpTool(ag, tool, gen) ==
  IF tool = "ask_viewers_for_help"
    THEN IF ag.money < 5000 /\ ag.hunger > 70
           THEN [ag EXCEPT !.money = @ + 1000] ELSE ag
  ELSE IF tool = "post_to_social"
    THEN IF gen = "created"
           THEN [ag EXCEPT !.social_media_followers = @ + 10]
           ELSE [ag EXCEPT !.social_media_followers = @ + 5]
  ELSE IF tool = "check_crowdfunding"
    THEN IF ag.stream_followers > 1000
           THEN [ag EXCEPT !.money = @ + 5000] ELSE ag
  ELSE IF tool = "stream_performance"
    THEN [ag EXCEPT !.stream_followers = @ + 10]
  ELSE ag

\* the result text of the tool holds a colon
McpToolResultHasColon(ag, tool) ==
  \/ tool \in {"respond_to_viewer", "post_to_social"}
  \/ tool = "check_crowdfunding" /\ ~(ag.stream_followers > 1000)
  \/ tool \notin {"", "read_viewer_messages", "respond_to_viewer",
                  "check_viewer_sentiment", "read_donations", "thank_donor",
                  "ask_viewers_for_help", "post_to_social",
                  "check_crowdfunding", "stream_performance"}

McpIsWrite(a) == Contains("write", a) \/ Contains("blog", a)
McpIsStream(a) == Contains("stream", a)

\* the if/elif chain of execute_regular_action, first match wins
McpActionBranch(a) ==
  IF IsFood(a) THEN "food"
  ELSE IF IsWork(a) THEN "work"
  ELSE IF McpIsWrite(a) THEN "write"
  ELSE IF McpIsStream(a) THEN "stream"
  ELSE "default"

\* the writing branch: the pay is booked unless running the generator raised
McpWriteEffect(ag, tier, gen) ==
  IF gen = "raised"
    THEN IF tier = "poor" THEN [ag EXCEPT !.exhaustion = Min(100, @ + 5)] ELSE ag
    ELSE IF tier = "poor"
           THEN [ag EXCEPT !.exhaustion = Min(100, @ + 5), !.money = @ + 350]
           ELSE [ag EXCEPT !.money = @ + 5000]

McpStreamEffect(ag, tier) ==
  IF ag.has_streaming_access
    THEN [ag EXCEPT !.stream_followers = @ + (IF tier = "poor" THEN 15 ELSE 5),
                    !.money = @ + (IF tier = "poor" THEN 500 ELSE 0)]
    ELSE ag

\* execute_regular_action; gen says whether running the generator raised
ExecuteRegularAction(ag, d, tier, gen) ==
  LET b == McpActionBranch(d.action)
      acted == CASE b = "food" -> FoodEffect(ag, tier)
                 [] b = "work" -> WorkEffect(ag, tier)
                 [] b = "write" -> McpWriteEffect(ag, tier, gen)
                 [] b = "stream" -> McpStreamEffect(ag, tier)
                 [] OTHER -> ag
  IN  UrgencyEffect(acted, d.urgency)

\* execute_action_with_mcp: the tool first, then the regular action with
\* the tier of the money the tool left
ExecuteActionWithMcp(ag, d, genTool, genWrite) ==
  LET tooled == IF d.mcp_tool # "" THEN ExecuteMcpTool(ag, d.mcp_tool, genTool)
                ELSE ag
  IN  ExecuteRegularAction(tooled, d, ActionTier(tooled.money), genWrite)

\* the classification at the head of simulate_character_interaction
McpInteractionType(money1, money2) ==
  IF money1 < 10000 /\ money2 < 10000 THEN "solidarity"
  ELSE IF money1 - money2 > 1000000 \/ money2 - money1 > 1000000
    THEN "class_tension"
  ELSE IF money1 < 10000 \/ money2 < 10000 THEN "compassion_or_dismissal"
  ELSE "neutral"

\* the if/elif chain at the end of update_relationship
McpLabel(trust, affinity, n) ==
  IF trust > 30 /\ affinity > 30 THEN "friends"
  ELSE IF trust > 15 /\ affinity > 15 THEN "allies"
  ELSE IF trust < -15 \/ affinity < -15 THEN "tension"
  ELSE IF n > 1 THEN "acquaintances"
  ELSE "strangers"

\* update_relationship of MCPEnabledSimulation
McpUpdateRelationship(rels, char1, char2, changes) ==
  LET key == <<char1, char2>>
      old == RelationshipAt(rels, key)
      trust == old.trust + changes.trust
      affinity == old.affinity + changes.affinity
      n == old.history + 1
  IN  PutRelationship(rels, key,
        [trust |-> trust, affinity |-> affinity, history |-> n,
         type |-> McpLabel(trust, affinity, n)])

\* one more entry in the memory list; shown is the action name the entry
\* shows after its last colon ("-" when it shows none of the money actions)
McpRemember(ag, shown) ==
  LET r == Append(ag.recent, shown)
  IN  [ag EXCEPT !.memories = @ + 1,
                 !.recent = IF Len(r) > 5 THEN SubSeq(r, Len(r) - 4, Len(r))
                            ELSE r]

\* agent['memories'] = agent['memories'][-30:]
McpTrim(ag) == [ag EXCEPT !.memories = Min(MemoryCap, @)]

\* simulate_character_interaction on the agent table; help says whether
\* random.random() < 0.3
McpInteractionAgents(ags, char1, char2, help) ==
  LET m1 == ags[char1].money
      m2 == ags[char2].money
      type == McpInteractionType(m1, m2)
      both == [id \in DOMAIN ags |->
                 IF id \in {char1, char2} THEN McpRemember(ags[id], "-")
                 ELSE ags[id]]
      wealthy == IF m1 > m2 THEN char1 ELSE char2
      poor == IF m1 > m2 THEN char2 ELSE char1
  IN  IF type = "solidarity"
        THEN IF m1 > 1000 /\ m2 < 500
               THEN [both EXCEPT ![char1].money = @ - 500,
                                 ![char2].money = @ + 500]
               ELSE both
      ELSE IF type = "class_tension" THEN both
      ELSE IF type = "compassion_or_dismissal" /\ help
        THEN [both EXCEPT ![wealthy].money = @ - 2000,
                          ![poor].money = @ + 2000]
      ELSE ags

\* simulate_character_interaction: the changes it passes to
\* update_relationship
McpInteractionChanges(money1, money2, help) ==
  LET type == McpInteractionType(money1, money2)
  IN  IF type = "solidarity" THEN [trust |-> 10, affinity |-> 10]
      ELSE IF type = "class_tension" THEN [trust |-> -5, affinity |-> -10]
      ELSE IF type = "compassion_or_dismissal"
        THEN IF help THEN [trust |-> 15, affinity |-> 10]
             ELSE [trust |-> 0, affinity |-> -2]
      ELSE [trust |-> 1, affinity |-> 1]

\* the relationship table as load_relationships finds it in a stored world:
\* the record that three meetings of earlier runs of this simulation left
McpStoredRelationships ==
  LET sol == [trust |-> 10, affinity |-> 10]
      once == McpUpdateRelationship(NoRelationships, "alex_chen",
                                    "jamie_rodriguez", sol)
      thrice == McpUpdateRelationship(
                  McpUpdateRelationship(once, "alex_chen", "jamie_rodriguez", sol),
                  "alex_chen", "jamie_rodriguez", sol)
  IN  {thrice}

\* minutes random.randint(15, 45) adds to the clock
McpTimeAdvances == {15, 45}

\* the clock the world state holds: 6:00 of a new world, or a stored one
McpStoredTimes == {540}

InitMcp ==
  /\ sys = "mcp"
  /\ \/ /\ agents = McpDefaultAgents
        /\ relationships = NoRelationships
        /\ world_time = 360
     \/ /\ agents \in McpLoadedPopulations
        /\ relationships \in McpStoredRelationships
        /\ world_time \in McpStoredTimes
  /\ occupants = EmptyOccupants(SimLocations)
  /\ events = NoRecord
  /\ paused = FALSE
  /\ turn_number = 0
  /\ use_bedrock \in BOOLEAN
  /\ pc = "idle"
  /\ cur = 0
  /\ perception = NoRecord
  /\ decision = NoRecord
  /\ outcome = "ok"
  /\ tickStart = agents
  /\ lastCall = NoRecord

\* self.turn_number += 1, then the loop over self.agents begins
McpStartTurn ==
  /\ sys = "mcp" /\ pc = "idle" /\ turn_number < MaxMcpTurns
  /\ turn_number' = turn_number + 1
  /\ cur' = 1
  /\ pc' = "agent"
  /\ tickStart' = agents
  /\ perception' = NoRecord /\ decision' = NoRecord /\ lastCall' = NoRecord
  /\ UNCHANGED <<sys, events, paused, agents, occupants, relationships, world_time, use_bedrock,
                 outcome>>

\* the decisions get_ai_decision_with_mcp can return for the agent
McpDecisions(id, ags) ==
  LET ag == ags[id]
      others == OthersHere(id, ags)
      simulated == UNION {McpSimulatedDecisions(id, ag, others,
                                                world_time \div 60, social,
                                                other, work) :
                            social \in BOOLEAN,
                            other \in (IF others = {} THEN {id} ELSE others),
                            work \in McpTraits(id)}
  IN  IF use_bedrock
        THEN McpInferenceReplies \cup {McpUnparsedDecision} \cup simulated
        ELSE simulated

\* the body of the loop of execute_turn for one agent: perception, decision,
\* execute_action_with_mcp, the memory entry, the cut to the last 30, the
\* second memory entry, update_needs, save_agent_state
McpAgentTurn ==
  /\ sys = "mcp" /\ pc = "agent"
  /\ LET id == AgentOrder[cur]
     IN  \E d \in McpDecisions(id, agents) :
         \E genTool \in (IF d.mcp_tool = "post_to_social"
                            THEN {"created", "failed"} ELSE {"failed"}) :
         \E genWrite \in (IF McpActionBranch(d.action) = "write"
                             THEN {"ran", "raised"} ELSE {"ran"}) :
           LET acted == ExecuteActionWithMcp(agents[id], d, genTool, genWrite)
               shown == IF d \in McpMoneyActions
                             /\ ~McpToolResultHasColon(agents[id], d.mcp_tool)
                          THEN d.action ELSE "-"
               first == McpRemember(acted, shown)
               second == McpRemember(McpTrim(first), "-")
           IN  /\ agents' = [agents EXCEPT ![id] = UpdateNeeds(second)]
               /\ decision' = d
               /\ perception' = McpGetAgentPerception(id, agents)
               /\ lastCall' = [op |-> "execute_action_with_mcp", agent |-> id]
  /\ IF cur < Len(AgentOrder)
       THEN cur' = cur + 1 /\ pc' = "agent"
       ELSE cur' = 0 /\ pc' = "interactions"
  /\ UNCHANGED <<sys, events, paused, occupants, relationships, turn_number, world_time,
                 use_bedrock, outcome, tickStart>>

\* simulate_character_interaction(char1, char2, location)
McpSimulateCharacterInteraction(char1, char2, help) ==
  /\ agents' = McpInteractionAgents(agents, char1, char2, help)
  /\ relationships' =
       McpUpdateRelationship(relationships, char1, char2,
         McpInteractionChanges(agents[char1].money, agents[char2].money, help))
  /\ lastCall' = [op |-> "simulate_character_interaction",
                  char1 |-> char1, char2 |-> char2, help |-> help,
                  type |-> McpInteractionType(agents[char1].money,
                                              agents[char2].money)]

\* process_location_interactions for the two agents: min(2, n // 2) is one
\* interaction of the sampled ordered pair when they share a location
McpProcessLocationInteractions ==
  /\ sys = "mcp" /\ pc = "interactions"
  /\ IF agents[AgentOrder[1]].location = agents[AgentOrder[2]].location
       THEN \E char1 \in SimAgentIds :
            \E char2 \in SimAgentIds \ {char1} :
            \E help \in BOOLEAN :
              McpSimulateCharacterInteraction(char1, char2, help)
       ELSE /\ UNCHANGED <<agents, relationships>>
            /\ lastCall' = [op |-> "process_location_interactions"]
  /\ pc' = "advance"
  /\ UNCHANGED <<sys, events, paused, occupants, turn_number, world_time, use_bedrock, cur,
                 perception, decision, outcome, tickStart>>

\* the clock moves on, save_world_state, save_agent_state and
\* save_memories of every agent (the store gets memories[-30:])
McpAdvance ==
  /\ sys = "mcp" /\ pc = "advance"
  /\ \E t \in McpTimeAdvances : world_time' = (world_time + t) % 1440
  /\ pc' = "idle"
  /\ lastCall' = [op |-> "save_world_state"]
  /\ tickStart' = agents
  /\ perception' = NoRecord /\ decision' = NoRecord
  /\ UNCHANGED <<sys, events, paused, agents, occupants, relationships, turn_number,
                 use_bedrock, cur, outcome>>

NextMcp ==
  \/ McpStartTurn
  \/ McpAgentTurn
  \/ McpProcessLocationInteractions
  \/ McpAdvance

SpecMcp == InitMcp /\ [][NextMcp]_vars

----------------------------------------------------------------------------
(* The relationship tables of both systems *)

\* simulate_character_interaction called on its own for two agents that
\* share a location; cur counts the calls
McpMeeting ==
  /\ sys = "mcp" /\ pc = "idle" /\ cur < MaxMcpMeetings
  /\ agents[AgentOrder[1]].location = agents[AgentOrder[2]].location
  /\ \E char1 \in SimAgentIds :
     \E char2 \in SimAgentIds \ {char1} :
     \E help \in BOOLEAN :
       McpSimulateCharacterInteraction(char1, char2, help)
  /\ cur' = cur + 1
  /\ UNCHANGED <<sys, events, paused, occupants, turn_number, world_time, use_bedrock, pc,
                 perception, decision, outcome, tickStart>>

InitRelationships == InitCis \/ InitMcp

NextRelationships ==
  \/ CisSimulateLocationInteractions
  \/ McpMeeting

SpecRelationships == InitRelationships /\ [][NextRelationships]_vars

\* the label function of the running system
LabelOf(rel) ==
  IF sys = "cis" THEN CisLabel(rel.trust, rel.affinity, rel.history)
  ELSE McpLabel(rel.trust, rel.affinity, rel.history)

\* C3: in every reachable state the stored type of each relationship is the
\* label function applied to its stored trust, affinity and history length.
C3_TypeIsLabelOfStoredValues ==
  \A key \in DOMAIN relationships :
    relationships[key].type = LabelOf(relationships[key])

\* a relationship that update_relationship has raised to the highest label
\* over several meetings
C3_Witness ==
  \E key \in DOMAIN relationships :
    /\ relationships[key].history >= 2
    /\ relationships[key].type \in {"friend", "friends"}
    /\ "op" \in DOMAIN lastCall
    /\ lastCall.op \in {"simulate_location_interactions",
                        "simulate_character_interaction"}

\* C4: after any number of memory appends every agent's memory list holds
\* at most MemoryCap entries.
C4_MemoryWithinCap ==
  \A id \in DOMAIN agents : agents[id].memories <= MemoryCap

\* C10: classifying (A, B) gives the same encounter type as classifying
\* (B, A), for every pair of agents and every location, whatever the two
\* calls draw.
C10_ClassificationSymmetric ==
  \A a \in DOMAIN agents :
    \A b \in DOMAIN agents \ {a} :
      IF sys = "cis"
        THEN \A location \in CisLocations :
               \A draw1 \in CisDraws :
                 \A draw2 \in CisDraws :
                   DetermineInteractionType(agents[a].money, agents[b].money,
                                            location, draw1)
                     = DetermineInteractionType(agents[b].money, agents[a].money,
                                                location, draw2)
        ELSE McpInteractionType(agents[a].money, agents[b].money)
               = McpInteractionType(agents[b].money, agents[a].money)

----------------------------------------------------------------------------
(* SpatialWorld of spatial-world-system.py *)

\* self.locations (every one of them also has an entry in self.connections)
SpatialLocations ==
  {"library", "coffee_shop", "luxury_apartment", "alex_apartment", "hospital",
   "downtown_office", "street", "car", "mcdonalds", "old_house",
   "community_center", "food_bank"}

\* self.character_locations
SpatialCharacterLocations ==
  [id \in {"alex_chen", "tyler_chen", "jamie_rodriguez", "maria_gonzalez",
           "ashley_kim", "dorothy_jackson", "brittany_torres"} |->
     [location |->
        CASE id = "alex_chen" -> "alex_apartment"
          [] id = "tyler_chen" -> "luxury_apartment"
          [] id = "jamie_rodriguez" -> "coffee_shop"
          [] id = "maria_gonzalez" -> "hospital"
          [] id = "ashley_kim" -> "downtown_office"
          [] id = "dorothy_jackson" -> "old_house"
          [] OTHER -> "car"]]

\* "Update occupants": every character is appended to the list of its place
SpatialOccupants ==
  [l \in SpatialLocations |->
     CASE l = "alex_apartment" -> <<"alex_chen">>
       [] l = "luxury_apartment" -> <<"tyler_chen">>
       [] l = "coffee_shop" -> <<"jamie_rodriguez">>
       [] l = "hospital" -> <<"maria_gonzalez">>
       [] l = "downtown_office" -> <<"ashley_kim">>
       [] l = "old_house" -> <<"dorothy_jackson">>
       [] l = "car" -> <<"brittany_torres">>
       [] OTHER -> <<>>]

\* list.remove(x): the list without the first x
RemoveFirst(seq, x) ==
  IF \E i \in 1..Len(seq) : seq[i] = x
    THEN LET i == CHOOSE k \in 1..Len(seq) :
                    seq[k] = x /\ \A j \in 1..(k - 1) : seq[j] # x
         IN  SubSeq(seq, 1, i - 1) \o SubSeq(seq, i + 1, Len(seq))
    ELSE seq

\* number of times x is listed
Count(seq, x) == Cardinality({i \in 1..Len(seq) : seq[i] = x})

\* move_character: the lookup self.locations[from_loc] raises KeyError
\* before anything changes; self.locations[to_loc] raises it after the
\* character has left the old list
MoveCharacter(occ, ags, character, from_loc, to_loc) ==
  IF from_loc \notin DOMAIN occ
    THEN [occupants |-> occ, agents |-> ags, raised |-> "KeyError"]
  ELSE LET left == [occ EXCEPT ![from_loc] = RemoveFirst(@, character)]
       IN  IF to_loc \notin DOMAIN occ
             THEN [occupants |-> left, agents |-> ags, raised |-> "KeyError"]
             ELSE [occupants |-> [left EXCEPT ![to_loc] = Append(@, character)],
                   agents |-> [ags EXCEPT ![character].location = to_loc],
                   raised |-> "ok"]

\* the character of each scenario of run_spatial_narrative
SpatialScenarios ==
  <<"alex_chen", "tyler_chen", "dorothy_jackson", "alex_chen",
    "brittany_torres", "maria_gonzalez", "jamie_rodriguez">>

\* decision['move_to'] of the replies the model lets the inference service
\* give: nothing, a place of the world, and a place the world lacks
SpatialMoveTargets == {"none", "library", "rooftop_garden"}

InitSpatial ==
  /\ sys = "spatial"
  /\ agents = SpatialCharacterLocations
  /\ occupants = SpatialOccupants
  /\ relationships = NoRelationships
  /\ events = NoRecord
  /\ paused = FALSE
  /\ turn_number = 0
  /\ world_time = 0
  /\ use_bedrock = TRUE
  /\ pc = "idle"
  /\ cur = 0
  /\ perception = NoRecord
  /\ decision = NoRecord
  /\ outcome = "ok"
  /\ tickStart = agents
  /\ lastCall = NoRecord

\* one turn of run_spatial_narrative: the character moves when the reply
\* names a place other than its own; an exception is printed and the loop
\* goes on to the next scenario
SpatialNarrativeTurn ==
  /\ sys = "spatial" /\ turn_number < Len(SpatialScenarios)
  /\ turn_number' = turn_number + 1
  /\ LET character == SpatialScenarios[turn_number + 1]
         current == agents[character].location
     IN  \E move_to \in SpatialMoveTargets :
           IF move_to # "none" /\ move_to # current
             THEN LET r == MoveCharacter(occupants, agents, character, current,
                                         move_to)
                  IN  /\ occupants' = r.occupants
                      /\ agents' = r.agents
                      /\ outcome' = r.raised
                      /\ lastCall' = [op |-> "move_character",
                                      character |-> character,
                                      from |-> current, to |-> move_to,
                                      before |-> current]
             ELSE /\ UNCHANGED <<occupants, agents>>
                  /\ outcome' = "ok"
                  /\ lastCall' = [op |-> "stay", character |-> character]
  /\ UNCHANGED <<sys, events, paused, relationships, world_time, use_bedrock, pc, cur,
                 perception, decision, tickStart>>

\* move_character called on its own, from the recorded place of the
\* character or from a place the world lacks; cur counts these calls
SpatialMoveCharacter ==
  /\ sys = "spatial" /\ cur < MaxSpatialMoves
  /\ \E character \in {"alex_chen", "jamie_rodriguez"} :
     \E from_loc \in {agents[character].location, "parking_lot"} :
     \E to_loc \in SpatialMoveTargets \ {"none"} :
       LET r == MoveCharacter(occupants, agents, character, from_loc, to_loc)
       IN  /\ occupants' = r.occupants
           /\ agents' = r.agents
           /\ outcome' = r.raised
           /\ lastCall' = [op |-> "move_character", character |-> character,
                           from |-> from_loc, to |-> to_loc,
                           before |-> agents[character].location]
  /\ cur' = cur + 1
  /\ UNCHANGED <<sys, events, paused, relationships, turn_number, world_time,
                 use_bedrock, pc, perception, decision, tickStart>>

NextSpatial ==
  \/ SpatialNarrativeTurn
  \/ SpatialMoveCharacter

SpecSpatial == InitSpatial /\ [][NextSpatial]_vars

----------------------------------------------------------------------------
(* StatefulNarrative, PersistentWorld and PersistentCharacter of           *)
(* persistent-world-state.py                                               *)

\* create_new_world: the locations, all with no occupants
PersistentLocations == {"library", "coffee_shop", "mcdonalds", "apartment"}

\* the names get_character is called with: the three profiles and a name
\* that has none
PersistentNames == {"alex_chen", "jamie_rodriguez", "sarah_kim", "pat_doe"}

\* create_new_character: location and number of memories of the profile
CreateNewCharacter(name) ==
  CASE name = "alex_chen" -> [location |-> "library", memories |-> 2]
    [] name = "jamie_rodriguez" -> [location |-> "coffee_shop", memories |-> 2]
    [] name = "sarah_kim" -> [location |-> "car", memories |-> 2]
    [] OTHER -> [location |-> "unknown", memories |-> 1]

\* load_or_create: the stored item of the character when the table holds a
\* complete one (the model stores one for alex_chen, with a full memory
\* list), otherwise create_new_character
LoadOrCreate(name, stored) ==
  IF stored /\ name = "alex_chen"
    THEN [location |-> "mcdonalds", memories |-> MemoryCap]
    ELSE CreateNewCharacter(name)

\* get_character: the character, created on first use
GetCharacter(ags, name, stored) ==
  IF name \in DOMAIN ags THEN ags
  ELSE [n \in DOMAIN ags \cup {name} |->
          IF n = name THEN LoadOrCreate(name, stored) ELSE ags[n]]

\* remember: append, and drop the oldest entry beyond 30
PersistentRemember(ch) ==
  [ch EXCEPT !.memories = IF @ + 1 > MemoryCap THEN @ ELSE @ + 1]

\* update_location: each half is skipped when its location is not known
UpdateLocation(occ, character, from_loc, to_loc) ==
  LET left == IF from_loc \in DOMAIN occ
                THEN [occ EXCEPT ![from_loc] = RemoveFirst(@, character)]
                ELSE occ
  IN  IF to_loc \in DOMAIN occ
        THEN [left EXCEPT ![to_loc] = Append(@, character)]
        ELSE left

\* the decision get_ai_decision returns when the call fails
PersistentFallbackDecision ==
  [move_to |-> "none", rent_strike |-> FALSE, tells |-> {}]

\* the decisions the model lets the inference service answer with: a move
\* to a place of the world or to one it lacks, joining the rent strike,
\* telling another character
PersistentDecisions(name) ==
  {PersistentFallbackDecision,
   [move_to |-> "coffee_shop", rent_strike |-> FALSE, tells |-> {}],
   [move_to |-> "food_bank", rent_strike |-> FALSE, tells |-> {}],
   [move_to |-> "none", rent_strike |-> TRUE, tells |-> {}]}
    \cup {[move_to |-> "none", rent_strike |-> FALSE, tells |-> {other}] :
            other \in {"alex_chen", "jamie_rodriguez"} \ {name}}

InitPersistent ==
  /\ sys = "persistent"
  /\ agents = <<>>
  /\ occupants = EmptyOccupants(PersistentLocations)
  /\ relationships = NoRelationships
  /\ events = [rent_strike |-> 0]
  /\ paused = FALSE
  /\ turn_number = 0
  /\ world_time = 0
  /\ use_bedrock = TRUE
  /\ pc = "idle"
  /\ cur = 0
  /\ perception = NoRecord
  /\ decision = NoRecord
  /\ outcome = "ok"
  /\ tickStart = agents
  /\ lastCall = NoRecord

\* process_action: get the character, decide, remember, move, join the
\* rent strike, tell the characters named; cur counts the calls
PersistentProcessAction ==
  /\ sys = "persistent" /\ cur < MaxPersistentCalls
  /\ \E name \in PersistentNames :
     \E stored \in BOOLEAN :
     \E d \in PersistentDecisions(name) :
       LET got == GetCharacter(agents, name, stored)
           before == got[name].location
           remembered == [got EXCEPT ![name] = PersistentRemember(@)]
           moved == IF d.move_to # "none"
                      THEN [remembered EXCEPT ![name].location = d.move_to]
                      ELSE remembered
           told == {o \in DOMAIN moved : o # name /\ o \in d.tells}
       IN  /\ agents' = [n \in DOMAIN moved |->
                           IF n \in told THEN PersistentRemember(moved[n])
                           ELSE moved[n]]
           /\ occupants' = IF d.move_to # "none"
                             THEN UpdateLocation(occupants, name, before,
                                                 d.move_to)
                             ELSE occupants
           /\ events' = IF d.rent_strike
                          THEN [events EXCEPT !.rent_strike = @ + 1]
                          ELSE events
           /\ relationships' =
                [k \in DOMAIN relationships \cup {<<name, o>> : o \in told} |->
                   IF k[1] = name /\ k[2] \in told
                     THEN [type |-> "confided_in"]
                     ELSE relationships[k]]
           /\ lastCall' = IF d.move_to # "none"
                            THEN [op |-> "process_action", character |-> name,
                                  from |-> before, to |-> d.move_to,
                                  before |-> before]
                            ELSE [op |-> "process_action", character |-> name]
  /\ cur' = cur + 1
  /\ outcome' = "ok"
  /\ UNCHANGED <<sys, paused, turn_number, world_time, use_bedrock, pc, perception,
                 decision, tickStart>>

NextPersistent == PersistentProcessAction

SpecPersistent == InitPersistent /\ [][NextPersistent]_vars

----------------------------------------------------------------------------
(* Claims about locations and occupancy lists *)

\* C7: a move whose source or destination is not in the registry raises
\* UnknownLocationError, and the agent's recorded location is what it was
\* before the move.
C7_UnknownLocationRaises ==
  ("to" \in DOMAIN lastCall
     /\ (lastCall.from \notin DOMAIN occupants
           \/ lastCall.to \notin DOMAIN occupants))
    => (outcome = "UnknownLocationError"
          /\ agents[lastCall.character].location = lastCall.before)

\* C8: in every reachable state every agent's location is the id of a
\* location of the world registry.
C8_LocationInRegistry ==
  (sys \in {"basic", "mcp", "r5", "spatial", "persistent"})
    => \A id \in DOMAIN agents : agents[id].location \in DOMAIN occupants

\* C9: the occupancy list of each location lists exactly the agents whose
\* location field is that location, each of them once.
C9_OccupancyMatchesLocations ==
  (sys \in {"basic", "mcp", "r5", "spatial", "persistent"})
    => \A l \in DOMAIN occupants :
         \A id \in DOMAIN agents :
           Count(occupants[l], id) = IF agents[id].location = l THEN 1 ELSE 0

----------------------------------------------------------------------------
(* Claims about the classification of encounters by money *)

\* the classification the running system gives the pair (a, b) at the
\* location, for one value of the random draw
ClassificationOf(a, b, location, draw) ==
  IF sys = "cis"
    THEN DetermineInteractionType(agents[a].money, agents[b].money, location,
                                  draw)
  ELSE IF sys = "mcp"
    THEN McpInteractionType(agents[a].money, agents[b].money)
  ELSE DetermineEncounterType({a, b}, agents)

\* C11: for every pair of co-located agents that both have money below 100
\* the encounter classification is solidarity, whatever the location and
\* whatever the random draw.
C11_BothPoorIsSolidarity ==
  (sys \in {"basic", "mcp", "cis"}) =>
    \A a \in DOMAIN agents :
      \A b \in DOMAIN agents \ {a} :
        (agents[a].money < 10000 /\ agents[b].money < 10000) =>
          \A location \in (IF sys = "cis" THEN CisLocations
                           ELSE IF agents[a].location = agents[b].location
                             THEN {agents[a].location} ELSE {}) :
            \A draw \in CisDraws :
              ClassificationOf(a, b, location, draw) = "solidarity"

\* C12: for every pair of co-located agents that are not both poor, the
\* classification is class_tension when the money gap exceeds 10,000,
\* compassion_or_dismissal when one is poor and the gap is within it, and
\* neutral otherwise.
C12_ClassificationByGap ==
  (sys \in {"basic", "mcp"}) =>
    \A a \in DOMAIN agents :
      \A b \in DOMAIN agents \ {a} :
        LET money1 == agents[a].money
            money2 == agents[b].money
            onePoor == money1 < 10000 \/ money2 < 10000
            bothPoor == money1 < 10000 /\ money2 < 10000
            gap == IF money1 > money2 THEN money1 - money2 ELSE money2 - money1
        IN  (agents[a].location = agents[b].location /\ ~bothPoor) =>
              ClassificationOf(a, b, agents[a].location, "solidarity")
                = (IF gap > 1000000 THEN "class_tension"
                   ELSE IF onePoor THEN "compassion_or_dismissal"
                   ELSE "neutral")

----------------------------------------------------------------------------
(* Claims about the decisions handed to the action resolver *)

\* C13: for an agent with money below 50 and hunger above 80 the decision of
\* the fallback provider is food-seeking and has urgency high or immediate,
\* for every random draw, time of day, location, co-located agents and
\* recent memories.
C13_HungryPoorSeeksFood ==
  (sys \in {"basic", "mcp"}) =>
    \A id \in DOMAIN agents :
      (agents[id].money < 5000 /\ agents[id].hunger > 80) =>
        IF sys = "basic"
          THEN LET d == BasicSimulatedDecision(agents[id],
                                               GetAgentPerception(id, agents))
               IN  /\ "raises" \notin DOMAIN d
                   /\ IsFood(d.action)
                   /\ d.urgency \in {"high", "immediate"}
          ELSE \A social \in BOOLEAN :
               \A other \in DOMAIN agents :
               \A work \in McpTraits(id) :
               \A d \in McpSimulatedDecisions(id, agents[id],
                                              OthersHere(id, agents),
                                              world_time \div 60, social,
                                              other, work) :
                 /\ IsFood(d.action)
                 /\ d.urgency \in {"high", "immediate"}

C15_UrgencyInContract ==
  /\ (sys \in {"basic", "mcp"} /\ decision # NoRecord) =>
       /\ "urgency" \in DOMAIN decision
       /\ decision.urgency \in {"immediate", "high", "medium", "low", "none"}
  /\ (sys = "r5" /\ turn_number >= 1) =>
       \A id \in R5Ids :
         R5MakeDecision(id, turn_number).urgency
           \in {"immediate", "high", "medium", "low", "none"}

----------------------------------------------------------------------------
(* PauseControl of cost-control.py next to AIAgentSimulation *)

\* PauseControl.is_paused: the pause file exists
IsPaused == paused

\* PauseControl.pause: writes the pause file
Pause ==
  /\ sys = "basic" /\ ~IsPaused
  /\ paused' = TRUE
  /\ UNCHANGED <<sys, events, agents, occupants, relationships, turn_number,
                 world_time, use_bedrock, pc, cur, perception, decision,
                 outcome, tickStart, lastCall>>

\* PauseControl.resume: removes the pause file when it exists
Resume ==
  /\ sys = "basic" /\ IsPaused
  /\ paused' = FALSE
  /\ UNCHANGED <<sys, events, agents, occupants, relationships, turn_number,
                 world_time, use_bedrock, pc, cur, perception, decision,
                 outcome, tickStart, lastCall>>

NextGate ==
  \/ NextBasic
  \/ Pause
  \/ Resume

\* the simulation with its default agents, the pause file absent
InitGate == InitBasic /\ agents = DefaultAgents

SpecGate == InitGate /\ [][NextGate]_vars

\* C16: the inference path consults the pause gate before every external
\* call: a decision request made while the system is paused makes no
\* external inference call, from pause() until resume().
C16_PausedMakesNoInferenceCall ==
  [][(sys = "basic" /\ IsPaused /\ pc = "decide" /\ pc' # "decide") =>
       lastCall'.inference \notin {"reply", "no_json", "bad_json", "raised"}]_vars

----------------------------------------------------------------------------
(* Claims about failures inside a tick *)

\* C17: when the decision of one agent is malformed (it lacks urgency), only
\* that agent's turn degrades to a no-op: execute_turn does not raise, the
\* other agents, the encounter phase and the clock still go on.
C17_MalformedDecisionDegradesOneTurn ==
  (sys = "basic" /\ decision # NoRecord /\ "urgency" \notin DOMAIN decision
     /\ pc # "resolve")
    => (outcome = "ok" /\ pc # "raised")

----------------------------------------------------------------------------
(* Claims about the economic tier *)

\* position of a tier name in the order poor, middle, wealthy, ultra_wealthy
TierRank(tier) ==
  CASE tier = "poor" -> 0
    [] tier = "middle" -> 1
    [] tier = "wealthy" -> 2
    [] OTHER -> 3

\* C19: the economic tier is one monotonic function of money with poor
\* below 100: the action resolver, the perception function, the needs
\* update and the encounter classifier place every agent in the same tier,
\* and a larger money value never yields a lower tier.
C19_OneTierFunction ==
  (sys \in {"basic", "mcp"}) =>
    /\ \A id \in DOMAIN agents :
         LET money == agents[id].money
         IN  /\ (ActionTier(money) = "poor") <=> IsPoor(money)
             /\ (ActionTier(money) = "poor") <=> (money < 10000)
             /\ (sys = "basic") =>
                  ((ActionTier(money) = "poor")
                     <=> (EncounterLevel(money) = "poor"))
    /\ \A a \in DOMAIN agents :
         \A b \in DOMAIN agents :
           (agents[a].money <= agents[b].money) =>
             /\ TierRank(ActionTier(agents[a].money))
                  <= TierRank(ActionTier(agents[b].money))
             /\ TierRank(EncounterLevel(agents[a].money))
                  <= TierRank(EncounterLevel(agents[b].money))
             /\ IsPoor(agents[b].money) => IsPoor(agents[a].money)

----------------------------------------------------------------------------
(* Claims about the order of the relationship labels *)

\* C20: the labels are evaluated from the most extreme bucket to the least:
\* whenever an update leaves trust below -50 and affinity below -50 the
\* stored type is enemy, not adversary.
C20_EnemyBeforeAdversary ==
  (sys = "cis") =>
    \A key \in DOMAIN relationships :
      (relationships[key].trust < -50 /\ relationships[key].affinity < -50)
        => relationships[key].type = "enemy"

----------------------------------------------------------------------------
(* SimulationRunner of simple_simulation.py: the tables are the state *)

\* the items of the agents table, in the order the scan returns them
SimpleOrder == <<"alex_chen", "jamie_rodriguez">>

SimpleIds == {SimpleOrder[i] : i \in 1..Len(SimpleOrder)}

\* the stored items the model starts from
SimpleStoredAgents ==
  {[id \in SimpleIds |->
      IF id = "alex_chen"
        THEN [money |-> 5309, hunger |-> 75, exhaustion |-> 85, stress |-> 90,
              memories |-> 0]
        ELSE [money |-> m, hunger |-> 60, exhaustion |-> 70, stress |-> 75,
              memories |-> 0]] : m \in {4300, 4700000}}

\* random.randint(...) of the money change, by wealth: the two ends
SimpleMoneyChange(money, high) ==
  IF money > 10000000 THEN (IF high THEN 500000 ELSE -100000)
  ELSE IF money > 100000 THEN (IF high THEN 50000 ELSE -20000)
  ELSE (IF high THEN 10000 ELSE -5000)

\* one agent of the loop of run_turn: money, needs; high says which end
\* each random.randint returns
SimpleUpdateAgent(ag, highMoney, highNeeds) ==
  LET new_money == Max(0, ag.money + SimpleMoneyChange(ag.money, highMoney))
  IN  IF new_money < 10000
        THEN [ag EXCEPT
                !.money = new_money,
                !.hunger = Min(100, @ + (IF highNeeds THEN 20 ELSE 5)),
                !.stress = Min(100, @ + (IF highNeeds THEN 15 ELSE 5)),
                !.exhaustion = Min(100, @ + (IF highNeeds THEN 15 ELSE 5))]
        ELSE [ag EXCEPT
                !.money = new_money,
                !.hunger = Max(0, @ - (IF highNeeds THEN 10 ELSE 0)),
                !.stress = Max(0, @ - (IF highNeeds THEN 10 ELSE 0)),
                !.exhaustion = Max(0, @ - (IF highNeeds THEN 10 ELSE 0))]

\* "Add a memory": the stored list gets the entry and is cut to the last 10;
\* a failure of this write is caught inside the loop
SimpleAddMemory(ag, fails) ==
  IF fails THEN ag ELSE [ag EXCEPT !.memories = Min(10, @ + 1)]

\* the write that fails during the turn: none, the world record, the item of
\* the k-th selected agent, or the memory items
SimpleFailures == {"none", "world", "agent_1", "agent_2", "memories"}

\* position of the agent whose put_item fails (0: none does)
SimpleFailedAt(fail) ==
  IF fail = "agent_1" THEN 1 ELSE IF fail = "agent_2" THEN 2 ELSE 0

\* the selected agents in scan order
SimpleSelected(specific) ==
  SelectSeq(SimpleOrder, LAMBDA id : id \in specific)

InitSimple ==
  /\ sys = "simple"
  /\ agents \in SimpleStoredAgents
  /\ occupants = NoRecord
  /\ relationships = NoRelationships
  /\ events = NoRecord
  /\ paused = FALSE
  /\ turn_number = 1
  /\ world_time = 0
  /\ use_bedrock = FALSE
  /\ pc = "idle"
  /\ cur = 0
  /\ perception = NoRecord
  /\ decision = NoRecord
  /\ outcome = "ok"
  /\ tickStart = agents
  /\ lastCall = NoRecord

\* run_turn(use_ai, specific_agents): the world record is written first;
\* then each selected agent is changed in memory, written to the agents
\* table and given a memory.  Any exception outside the memory block ends
\* the turn in the outer except, which returns success False
SimpleRunTurn ==
  /\ sys = "simple" /\ turn_number <= MaxSimpleTurns
  /\ \E specific \in {SimpleIds, {"alex_chen"}} :
     \E fail \in SimpleFailures :
     \E highMoney \in [SimpleIds -> BOOLEAN] :
     \E highNeeds \in [SimpleIds -> BOOLEAN] :
       LET selected == SimpleSelected(specific)
           failedAt == IF SimpleFailedAt(fail) <= Len(selected)
                         THEN SimpleFailedAt(fail) ELSE 0
           \* the agents whose items were written before the failure
           stored == IF fail = "world" THEN {}
                     ELSE {selected[i] : i \in
                             {j \in 1..Len(selected) :
                                failedAt = 0 \/ j < failedAt}}
           \* the agents changed in memory: the stored ones and the one
           \* whose write failed
           mutated == IF fail = "world" THEN {}
                      ELSE {selected[i] : i \in
                              {j \in 1..Len(selected) :
                                 failedAt = 0 \/ j <= failedAt}}
           aborted == fail = "world" \/ failedAt # 0
       IN  /\ turn_number' = IF fail = "world" THEN turn_number
                             ELSE turn_number + 1
           /\ agents' =
                [id \in SimpleIds |->
                   IF id \in stored
                     THEN SimpleAddMemory(
                            SimpleUpdateAgent(agents[id], highMoney[id],
                                              highNeeds[id]),
                            fail = "memories")
                     ELSE agents[id]]
           /\ outcome' = IF aborted THEN "Simulation failed" ELSE "ok"
           /\ lastCall' = [op |-> "run_turn", failed |-> fail,
                           selected |-> specific,
                           success |-> ~aborted,
                           mutated |-> mutated,
                           agents_updated |-> IF aborted THEN {} ELSE stored]
  /\ tickStart' = agents
  /\ UNCHANGED <<sys, events, paused, occupants, relationships, world_time,
                 use_bedrock, pc, cur, perception, decision>>

NextSimple == SimpleRunTurn

SpecSimple == InitSimple /\ [][NextSimple]_vars

\* C18: a failure of a write to the backing store during a tick does not
\* abort the tick: the in-memory changes of all agents selected for the tick
\* are still applied and the tick reports its result.
C18_StoreFailureDoesNotAbortTick ==
  (sys = "simple" /\ "failed" \in DOMAIN lastCall /\ lastCall.failed # "none")
    => (lastCall.success /\ lastCall.mutated = lastCall.selected)

----------------------------------------------------------------------------
(* Claims about the relationship key, the encounter pass and the parsing *)
(* of inference replies                                                 *)

\* get_relationship_status: the record under "char1_char2", else the one
\* under "char2_char1", else a new stranger record
GetRelationshipStatus(rels, char1, char2) ==
  IF <<char1, char2>> \in DOMAIN rels THEN rels[<<char1, char2>>]
  ELSE IF <<char2, char1>> \in DOMAIN rels THEN rels[<<char2, char1>>]
  ELSE NewRelationship

\* C21: the relationship key is order-independent: the table holds at most
\* one record per unordered pair {A, B}, so that an update for (B, A) goes
\* into the record an earlier update for (A, B) created, and the status
\* lookup gives the same record for (A, B) and for (B, A).
C21_OneRecordPerPair ==
  /\ \A k1 \in DOMAIN relationships :
       \A k2 \in DOMAIN relationships :
         ({k1[1], k1[2]} = {k2[1], k2[2]}) => k1 = k2
  /\ (sys = "mcp") =>
       \A a \in DOMAIN agents :
         \A b \in DOMAIN agents \ {a} :
           GetRelationshipStatus(relationships, a, b)
             = GetRelationshipStatus(relationships, b, a)

\* C22: when a participant of a candidate encounter has no agent record, the
\* encounter is skipped with no state change and the encounter engine does
\* not raise to its caller: the pass goes on with the remaining pairs.
C22_MissingRecordSkipsEncounter ==
  (sys = "cis" /\ "op" \in DOMAIN lastCall
     /\ lastCall.op = "simulate_location_interactions"
     /\ (lastCall.char1 \notin DOMAIN agents \/ lastCall.char2 \notin DOMAIN agents))
    => (outcome = "ok" /\ pc = "idle")

\* C23: when the inference reply cannot be parsed as a structured decision
\* (it holds no JSON object, or the JSON is invalid), the decision the
\* agent's turn uses is the fallback provider's, and no error reaches the
\* turn.
C23_UnparsedReplyUsesFallback ==
  /\ (sys = "basic" /\ "inference" \in DOMAIN lastCall
        /\ lastCall.inference \in {"no_json", "bad_json"})
       => (pc = "resolve" /\ outcome = "ok" /\ decision.source = "fallback")
  /\ (sys = "mcp" /\ decision # NoRecord)
       => decision.source \in {"inference", "fallback"}

----------------------------------------------------------------------------
(* Claims about the order of the phases of a tick and about what a      *)
(* resolution leaves behind                                            *)

\* C24: in every tick each agent passes through perceive, decide, resolve
\* and update-needs once, in that order, and the encounter scan runs after
\* the per-agent phases of all agents, needs updates included, and before
\* the single clock advance: when the scan has run, every agent is what one
\* resolution followed by one needs update make of the agent the tick began
\* with, and the clock still shows the time the tick began at.
C24_ScanFollowsNeedsUpdate ==
  ("op" \in DOMAIN lastCall /\ lastCall.op = "check_encounters") =>
    /\ (sys = "r5") =>
         /\ \A id \in R5Ids :
              agents[id] = R5UpdateNeeds(R5ProcessCharacterTurn(id, tickStart[id],
                                                                turn_number))
         /\ world_time = (540 + 30 * (turn_number - 1)) % 1440
    /\ (sys = "basic") =>
         /\ \A id \in SimAgentIds :
              \E d \in InferenceReplies \cup {UnparsedDecision} :
                /\ "urgency" \in DOMAIN d
                /\ agents[id] = UpdateNeeds([ExecuteAction(tickStart[id], d)
                                               EXCEPT !.memories = @ + 1])
         /\ world_time = (360 + 30 * (turn_number - 1)) % 1440

\* C25: each action resolution of an agent appends exactly one entry to the
\* agent's memory list: the per-agent phase of a tick leaves the list one
\* entry longer than the tick found it (or at the cap, when the entry made
\* the list drop its oldest one).
C25_OneMemoryPerResolution ==
  (sys \in {"basic", "mcp"} /\ "op" \in DOMAIN lastCall
     /\ lastCall.op \in {"execute_action", "execute_action_with_mcp"}
     /\ outcome = "ok") =>
    LET m == tickStart[lastCall.agent].memories
    IN  agents[lastCall.agent].memories \in {m + 1, Min(MemoryCap, m + 1)}

\* the action names get_simulated_decision of AIAgentSimulation returns
BasicProviderActions ==
  {"search_for_food", "find_place_to_rest", "take_moment_to_breathe",
   "submit_gig_work", "continue_working", "work_shift", "look_for_resources",
   "buy_lunch", "work_on_project", "manage_finances", "morning_routine",
   "check_investments", "network_socially", "review_portfolio",
   "plan_vacation", "ignore_problems", "post_on_social_media"}

\* the urgency values of the decision contract
Urgencies == {"immediate", "high", "medium", "low", "none"}

\* money and needs of an agent
MoneyAndNeeds(ag) == <<ag.money, ag.hunger, ag.exhaustion, ag.stress>>

\* no need of the agent sits at a clamping bound
NeedsInside(ag) ==
  /\ ag.hunger \in 1..99 /\ ag.exhaustion \in 1..99 /\ ag.stress \in 1..99

\* C26: every branch of the action resolver changes the agent's money or
\* needs: for every action category, tier and urgency, money and needs
\* after the resolution differ from before whenever no clamping bound stands
\* in the way.
C26_EveryBranchChangesAgent ==
  (sys = "basic") =>
    \A id \in DOMAIN agents :
      \A a \in BasicProviderActions \cup {"wait"} :
        \A u \in Urgencies :
          NeedsInside(agents[id]) =>
            MoneyAndNeeds(ExecuteAction(agents[id], [action |-> a, urgency |-> u]))
              # MoneyAndNeeds(agents[id])

\* C27: every resolved encounter, whatever its classification and whatever
\* the draw, appends exactly one memory to each of the two participants and
\* exactly one entry to the history of the pair's relationship, and sets
\* the relationship type from the new values.
C27_EncounterLeavesMemories ==
  [][(sys = "mcp" /\ pc = "interactions"
        /\ lastCall'.op = "simulate_character_interaction") =>
       LET char1 == lastCall'.char1
           char2 == lastCall'.char2
           old == RelationshipAt(relationships, <<char1, char2>>)
           new == RelationshipAt(relationships', <<char1, char2>>)
       IN  /\ agents'[char1].memories = agents[char1].memories + 1
           /\ agents'[char2].memories = agents[char2].memories + 1
           /\ new.history = old.history + 1
           /\ new.type = McpLabel(new.trust, new.affinity, new.history)]_vars

\* C28: an action that matches no category of the taxonomy is resolved
\* without error to the tier-default outcome, and the resolution leaves the
\* agent's money, location and inventory as they were.
C28_UnmatchedActionKeepsAgent ==
  [][(sys = "basic" /\ pc = "resolve" /\ "urgency" \in DOMAIN decision
        /\ ActionBranch(decision.action) = "default") =>
       LET id == AgentOrder[cur]
       IN  /\ pc' # "raised" /\ outcome' = "ok"
           /\ agents'[id].money = agents[id].money
           /\ agents'[id].location = agents[id].location
           /\ agents'[id].inventory = agents[id].inventory
           /\ \A o \in SimAgentIds \ {id} : agents'[o] = agents[o]]_vars

\* the unmatched action 'wait' has been resolved for an agent, whose stress
\* and memories show it
C28_Witness ==
  /\ sys = "basic" /\ decision # NoRecord /\ decision.action = "wait"
  /\ ActionBranch(decision.action) = "default"
  /\ "op" \in DOMAIN lastCall /\ lastCall.op = "execute_action"
  /\ outcome = "ok"
  /\ agents[lastCall.agent].memories = tickStart[lastCall.agent].memories + 1
  /\ agents[lastCall.agent].stress # tickStart[lastCall.agent].stress
  /\ agents[lastCall.agent].inventory # {}

\* C29: a move that fails, because the source or the destination is not a
\* location of the world, leaves the world as it was: every occupancy list
\* and the map from characters to locations are the same after the failed
\* move_character call as before it.
C29_FailedMoveChangesNothing ==
  [][(sys = "spatial" /\ outcome' = "KeyError") =>
       (occupants' = occupants /\ agents' = agents)]_vars

\* the category each action name of the provider belongs to, for the names
\* of the categories food, work, rest, invest and social
ProviderCategory(a) ==
  CASE a \in {"search_for_food", "buy_lunch"} -> "food"
    [] a \in {"submit_gig_work", "continue_working", "work_shift",
              "work_on_project"} -> "work"
    [] a \in {"find_place_to_rest", "take_moment_to_breathe"} -> "rest"
    [] a \in {"manage_finances", "check_investments", "review_portfolio"}
         -> "invest"
    [] a = "network_socially" -> "social"
    [] OTHER -> "other"

\* C30: every action name the deterministic provider can emit is resolved
\* in the resolver branch of its own category, given the first-match order
\* food, work, rest, invest, social: a rest action lowers exhaustion or
\* stress and spends no money on food, and network_socially is resolved as
\* a social action, not as work.
C30_ProviderActionsInOwnBranch ==
  (sys = "basic") =>
    /\ \A a \in BasicProviderActions :
         ProviderCategory(a) # "other" => ActionBranch(a) = ProviderCategory(a)
    /\ \A id \in DOMAIN agents :
         LET ag == agents[id]
             tier == ActionTier(ag.money)
         IN  /\ \A a \in {"find_place_to_rest", "take_moment_to_breathe"} :
                  /\ ActionEffect(ag, a, tier) = RestEffect(ag, tier)
                  /\ ActionEffect(ag, a, tier).money = ag.money
             /\ ActionEffect(ag, "network_socially", tier)
                  = SocialEffect(ag, tier)

====
